---- MODULE Spec2Model ----
(***************************************************************************)
(* Room registry, room access, connection broadcaster, list subscriptions *)
(* and room sessions of mini-chat (backend/mini_chat).                     *)
(*                                                                         *)
(* Strings that the code inspects (room ids, user names) are sequences of  *)
(* one-character strings, so that the channel-name regular expression and  *)
(* the dm-<a>-<b> id derivation are computed, not assumed.                 *)
(*                                                                         *)
(* Every handler is a process (an entry of procs) that advances one        *)
(* ROOMS_LOCK section, one store transaction or one await at a time.       *)
(***************************************************************************)
EXTENDS Integers, Sequences, FiniteSets, TLC

VARIABLES
    ROOMS,               \* rooms/services.py ROOMS: room_id -> room_type
    lock,                \* holder of ROOMS_LOCK (0 = free)
    rooms_tbl,           \* store: rooms table, room_id -> row
    room_members,        \* store: room_members table, set of <<room_id, username>>
    messages,            \* store: messages table, in insertion (= id) order
    clock,               \* the next reading of datetime.now()
    active_connections,  \* ConnectionManager.active_connections: room_id -> set of connections
    subscribers,         \* ListSubscriptionManager.subscribers: username -> set of connections
    procs,               \* the handlers started so far: id -> locals and position
    nprocs,              \* number of handlers started so far
    budget,              \* number of client inputs still to come in this run
    sched,               \* "loop": handlers are coroutines of one event loop, switched
                         \*   at awaits only; "threads": handlers run in parallel
    running,             \* the coroutine that holds the event loop (0 = none)
    peer,                \* per connection: is the client end still there
    inbox,               \* per connection: the events written to it, in order
    hist                 \* history: send attempts, disconnects made, DM ids returned (with the pair),
                         \*   connections that a broadcast or notify pruned, the types under which
                         \*   each room id has been registered

vars == <<ROOMS, lock, rooms_tbl, room_members, messages, clock, active_connections,
          subscribers, procs, nprocs, budget, sched, running, peer, inbox, hist>>

-----------------------------------------------------------------------------
(* Bounds of the model *)

\* The number of client inputs (requests, push upgrades, inbound frames, clients
\* going away) in a run of each specification.
MaxInputs == 2
ChatInputs == 4
DmInputs == 2
AccessInputs == 3
ChannelInputs == 3
PushInputs == 4
AuthInputs == 3
CreateInputs == 3
ImplicitInputs == 3
ListInputs == 3
NotifyInputs == 3
FanoutInputs == 4
AuthorInputs == 3
PathsInputs == 4
LoadInputs == 3
NameInputs == 3
OpenInputs == 4
BroadcastInputs == 4
TaggedInputs == 4
CrashInputs == 5
HistoryInputs == 4
IsolationInputs == 3

\* Handler (and connection) identifiers: one for every input of the longest run.
Largest(S) == CHOOSE x \in S : \A y \in S : y <= x
ProcIds == 1..Largest({MaxInputs, ChatInputs, DmInputs, AccessInputs, ChannelInputs, PushInputs,
                    AuthInputs, CreateInputs, ImplicitInputs, ListInputs,
                    NotifyInputs, FanoutInputs, AuthorInputs,
                    PathsInputs, LoadInputs, NameInputs, OpenInputs,
                    BroadcastInputs, TaggedInputs, CrashInputs,
                    HistoryInputs, IsolationInputs})

-----------------------------------------------------------------------------
(* Strings *)

Lower == {"a", "b", "c", "d", "g", "m"}
Digits == {"2"}
Hyphen == "-"
Newline == "\n"

\* Code points of the characters used, for Python's string comparison.
Ord(ch) ==
    CASE ch = Newline -> 10
      [] ch = "-" -> 45
      [] ch = "2" -> 50
      [] ch = "G" -> 71
      [] ch = "_" -> 95
      [] ch = "a" -> 97
      [] ch = "b" -> 98
      [] ch = "c" -> 99
      [] ch = "d" -> 100
      [] ch = "g" -> 103
      [] ch = "m" -> 109

\* Python str < str: lexicographic by code point, a proper prefix is smaller.
RECURSIVE StrLess(_, _)
StrLess(s, t) ==
    IF t = <<>> THEN FALSE
    ELSE IF s = <<>> THEN TRUE
    ELSE IF Head(s) = Head(t) THEN StrLess(Tail(s), Tail(t))
    ELSE Ord(Head(s)) < Ord(Head(t))

\* The pair in the order of the call.
SortedPairAsGiven(user_a, user_b) == <<user_a, user_b>>

\* sorted([user_a, user_b])
SortedPair(user_a, user_b) ==
    IF StrLess(user_b, user_a) THEN <<user_b, user_a>> ELSE <<user_a, user_b>>

\* f"dm-{sorted_users[0]}-{sorted_users[1]}"
DmRoomId(user_a, user_b) ==
    <<"d", "m", "-">> \o SortedPair(user_a, user_b)[1] \o <<"-">> \o SortedPair(user_a, user_b)[2]

\* [a-z0-9]
IsAlnum(ch) == ch \in Lower \cup Digits

\* CHANNEL_NAME_RE = ^[a-z0-9]+(-[a-z0-9]+)*$ matched from position i of s;
\* inRun says that at least one [a-z0-9] of the current run has been read.
\* Python's $ matches at the end of the string and before a newline that ends it.
RECURSIVE ReMatchFrom(_, _, _)
ReMatchFrom(s, i, inRun) ==
    IF i > Len(s) THEN inRun
    ELSE IF IsAlnum(s[i]) THEN ReMatchFrom(s, i + 1, TRUE)
    ELSE IF s[i] = Hyphen THEN inRun /\ i < Len(s) /\ IsAlnum(s[i + 1]) /\ ReMatchFrom(s, i + 1, FALSE)
    ELSE s[i] = Newline /\ inRun /\ i = Len(s)

validate_channel_name(name) == ReMatchFrom(name, 1, FALSE)

-----------------------------------------------------------------------------
(* Inputs *)

alice == <<"a">>
bob == <<"b">>
carol == <<"c">>
Users == {alice, bob, carol}      \* rows of the users table
Admins == {alice}                 \* users whose role is admin
NoUser == <<>>

general == <<"g">>
ChannelNames == {general, DmRoomId(alice, bob), <<"G">>, <<"g", "_", "2">>}
RoomIds == {general, DmRoomId(alice, bob)}
\* Two channels side by side.
TwoRooms == {general, <<"g", "2">>}
\* Names given to the channel create: well formed ones, and one of every kind
\* of malformed name (upper case, underscore, leading, trailing and doubled
\* hyphen, empty, and a well formed name followed by a line feed).
NameCases == {general, <<"a", "-", "b", "-", "2">>, <<"G">>, <<"g", "_", "2">>,
              <<"-", "a">>, <<"a", "-">>, <<"a", "-", "-", "b">>, <<>>,
              general \o <<Newline>>}
DmTargets == {alice, bob}
NoRoom == <<>>

\* Session tokens: base64 of "<username>:<random>"; here the decoded text.
TokenOf(username) == username \o <<":", "x">>
NoToken == <<>>
Tokens == {TokenOf(u) : u \in Users} \cup {NoToken, TokenOf(<<"m">>)}

\* Inbound text frames of a room session, by what json.loads makes of them;
\* username is the value of a "username" key that the client put in, if any.
Frames == {
    [json |-> "object", type |-> "message", message |-> "hi", username |-> NoUser],
    [json |-> "object", type |-> "typing", message |-> "", username |-> NoUser],
    [json |-> "list", type |-> "", message |-> "", username |-> NoUser],
    [json |-> "invalid", type |-> "", message |-> "", username |-> NoUser] }
MessageFrames == {f \in Frames : f.json = "object" /\ f.type = "message"}
\* Frames that decode to a tagged event (a JSON object).
TaggedFrames == {f \in Frames : f.json = "object"}
NoFrame == [json |-> "none", type |-> "", message |-> "", username |-> NoUser]
\* Message frames in which the client names an author.
ClaimedNames == {carol}
SpoofedFrames == {[f EXCEPT !.username = u] : f \in MessageFrames, u \in ClaimedNames}
Bodies == {"hi"}

-----------------------------------------------------------------------------
(* Partial maps *)

MapSet(f, k, v) == [x \in DOMAIN f \cup {k} |-> IF x = k THEN v ELSE f[x]]
MapDel(f, k) == [x \in DOMAIN f \ {k} |-> f[x]]
EmptyMap == [x \in {} |-> 0]
\* The connections registered for a key of a manager's map.
SetOf(map, key) == IF key \in DOMAIN map THEN map[key] ELSE {}

-----------------------------------------------------------------------------
(* Events written to connections *)

\* websocket_endpoint: {"type": "connected", "room": room_id, "username": username}
ConnectedEvent(room_id, username) == [type |-> "connected", room |-> room_id, username |-> username]
\* websocket_endpoint: {"type": "error", "message": "Invalid JSON"}
ErrorEvent == [type |-> "error", message |-> "Invalid JSON"]
\* {"type": "message", "data": message}
MessageEvent(message) == [type |-> "message", data |-> message]
\* {"type": "update"}
UpdateEvent == [type |-> "update"]
NoEvent == [type |-> "none"]

-----------------------------------------------------------------------------
(* Handlers *)

Idle == [op |-> "idle", pc |-> "idle", token |-> NoUser, user |-> NoUser, room |-> NoRoom,
         other |-> NoUser, frame |-> NoFrame, rtype |-> "None", ev |-> NoEvent, snap |-> {}, failed |-> {},
         keys |-> <<>>, key |-> NoUser, ret |-> "none", out |-> <<>>,
         \* history: the copy as taken, the connections disconnected before it was
         \* taken, the DM ids returned before the handler began, access granted,
         \* the number of messages stored when the session was registered, the
         \* send's access check registered its room, the list connections (of the
         \* two users, or of everybody) when the handler began to notify, the list
         \* connections that the handler's notify calls have sent to
         snap0 |-> {}, disc0 |-> {}, dms0 |-> {}, granted |-> FALSE, regat |-> 0,
         implicit |-> FALSE, subs0 |-> {}, sent |-> {}]

Started == 1..nprocs
\* Handler p is at label and may take its next step: under the event loop only
\* when no other coroutine is between two awaits.
At(p, label) == p \in Started /\ procs[p].pc = label /\ running \in {0, p}

\* Positions at which a handler is suspended in an await (accept, receive) or over.
Parked == {"done", "ws_connect", "ws_receive", "list_connect", "list_receive"}

\* After a step of p: the event loop is released when p has ended, waits for an
\* accept or a frame, or has just awaited a send (sent); threads never hold it.
Scheduled(p, sent) ==
    /\ running' = IF sched = "threads" \/ sent \/ procs'[p].pc \in Parked THEN 0 ELSE p
    /\ UNCHANGED sched
Goto(p, label) == [procs EXCEPT ![p].pc = label]
\* The handler returns (a response, an HTTP error, or the end of a session).
Return(p, status) == [procs EXCEPT ![p].pc = "done", ![p].ret = status]

\* datetime.now().isoformat(): every reading is a later instant.
Now == clock

\* History: room_id is entered in ROOMS with room_type.
Registered(room_id, room_type) ==
    [hist EXCEPT !.types = @ \cup {[room |-> room_id, type |-> room_type]}]

InitWith(inputs, scheduling) ==
    /\ budget = inputs
    /\ sched = scheduling
    /\ running = 0
    /\ ROOMS = EmptyMap
    /\ lock = 0
    /\ rooms_tbl = EmptyMap
    /\ room_members = {}
    /\ messages = <<>>
    /\ clock = 1
    /\ active_connections = EmptyMap
    /\ subscribers = EmptyMap
    /\ procs = [p \in ProcIds |-> Idle]
    /\ nprocs = 0
    /\ peer = [p \in ProcIds |-> "none"]
    /\ inbox = [p \in ProcIds |-> <<>>]
    /\ hist = [late_attempts |-> {}, disconnected |-> {}, pruned |-> {}, dm_returned |-> {}, types |-> {},
               loads |-> 0, reserved |-> {}, dm_rows |-> {}]

\* A client request or push upgrade arrives.
Begin(rec) ==
    /\ budget > 0
    /\ budget' = budget - 1
    /\ nprocs' = nprocs + 1
    /\ procs' = [procs EXCEPT ![nprocs + 1] = [rec EXCEPT !.dms0 = hist.dm_returned]]
    /\ UNCHANGED <<sched, running>>

-----------------------------------------------------------------------------
(* Store *)

\* INSERT OR IGNORE INTO rooms (room_id, room_type, created_at): room_id is the
\* primary key, so an existing row (deleted or not) is left as it is.
InsertOrIgnoreRoom(tbl, room_id, room_type, now) ==
    IF room_id \in DOMAIN tbl THEN tbl
    ELSE MapSet(tbl, room_id, [room_type |-> room_type, created_at |-> now, deleted |-> FALSE,
                               deleted_at |-> 0, deleted_by |-> NoUser])

\* UPDATE rooms SET deleted = 1, deleted_at = ?, deleted_by = ? WHERE room_id = ?
SoftDeleteRoom(tbl, room_id, now, deleted_by) ==
    IF room_id \in DOMAIN tbl
    THEN [tbl EXCEPT ![room_id].deleted = TRUE, ![room_id].deleted_at = now,
                     ![room_id].deleted_by = deleted_by]
    ELSE tbl

\* SELECT username FROM room_members WHERE room_id = ?
get_room_members(room_id) == {m[2] : m \in {x \in room_members : x[1] = room_id}}

\* A room list query without the deleted = 0 conditions.
UserRoomsWithDeleted(username) ==
    {[room_id |-> r, room_type |-> "channel", display_name |-> <<"#">> \o r, members |-> {}] :
        r \in {x \in DOMAIN rooms_tbl : rooms_tbl[x].room_type = "channel"}}
    \cup
    {[room_id |-> r, room_type |-> "dm", members |-> get_room_members(r),
      display_name |-> IF get_room_members(r) \ {username} = {} THEN username
                       ELSE CHOOSE m \in get_room_members(r) \ {username} : TRUE] :
        r \in {x \in DOMAIN rooms_tbl : /\ rooms_tbl[x].room_type = "dm"
                                        /\ <<x, username>> \in room_members}}

\* get_user_rooms(username): the rows of rooms with deleted = 0 and room_type
\* 'channel', then the rows with deleted = 0 and room_type 'dm' joined with the
\* user's rows of room_members; display_name is other[0] if other else username.
get_user_rooms(username) ==
    {[room_id |-> r, room_type |-> "channel", display_name |-> <<"#">> \o r, members |-> {}] :
        r \in {x \in DOMAIN rooms_tbl : ~rooms_tbl[x].deleted /\ rooms_tbl[x].room_type = "channel"}}
    \cup
    {[room_id |-> r, room_type |-> "dm", members |-> get_room_members(r),
      display_name |-> IF get_room_members(r) \ {username} = {} THEN username
                       ELSE CHOOSE m \in get_room_members(r) \ {username} : TRUE] :
        r \in {x \in DOMAIN rooms_tbl : /\ ~rooms_tbl[x].deleted
                                        /\ rooms_tbl[x].room_type = "dm"
                                        /\ <<x, username>> \in room_members}}

\* An INSERT that is never committed.
InsertMessageLost(room_id, username, message, timestamp) == messages

\* ChatRoom.add_message: the INSERT, with the id that AUTOINCREMENT assigns.
InsertMessage(room_id, username, message, timestamp) ==
    Append(messages, [id |-> Len(messages) + 1, room_id |-> room_id, username |-> username,
                      message |-> message, timestamp |-> timestamp])

\* ChatRoom.add_message: the dict it returns.
AddMessageResult(username, message, timestamp) ==
    [username |-> username, message |-> message, timestamp |-> timestamp]

\* ChatRoom.get_messages(since): rows of the room with id > since, ORDER BY id.
get_messages(room_id, since) ==
    SelectSeq(messages, LAMBDA m : m.room_id = room_id /\ m.id > since)

-----------------------------------------------------------------------------
(* Room registry: rooms/services.py *)

\* POST /rooms
StartCreateRoom(users, names) ==
    /\ \E u \in users, name \in names :
         Begin([Idle EXCEPT !.op = "create", !.pc = "create_room", !.user = u, !.room = name])
    /\ UNCHANGED <<ROOMS, lock, rooms_tbl, room_members, messages, clock, active_connections,
                   subscribers, peer, inbox, hist>>

\* A create_room that registers without the membership test.
CreateRoomLockedUnchecked(p) ==
    /\ At(p, "create_room")
    /\ IF ~validate_channel_name(procs[p].room)
       THEN /\ procs' = Return(p, "400 invalid name")
            /\ UNCHANGED <<ROOMS, hist>>
       ELSE /\ lock = 0
            /\ ROOMS' = MapSet(ROOMS, procs[p].room, "channel")
            /\ hist' = Registered(procs[p].room, "channel")
            /\ procs' = Goto(p, "create_persist")
    /\ UNCHANGED <<lock, rooms_tbl, room_members, messages, clock, active_connections,
                   subscribers, nprocs, budget, peer, inbox>>
    /\ Scheduled(p, FALSE)

\* create_new_room: validate_channel_name, then create_room's section under ROOMS_LOCK.
CreateRoomLocked(p) ==
    /\ At(p, "create_room")
    /\ IF ~validate_channel_name(procs[p].room)
       THEN /\ procs' = Return(p, "400 invalid name")
            /\ UNCHANGED <<ROOMS, hist>>
       ELSE /\ lock = 0
            /\ IF procs[p].room \in DOMAIN ROOMS
               THEN /\ procs' = Return(p, "400 already exists")
                    /\ UNCHANGED <<ROOMS, hist>>
               ELSE /\ ROOMS' = MapSet(ROOMS, procs[p].room, "channel")
                    /\ hist' = Registered(procs[p].room, "channel")
                    /\ procs' = Goto(p, "create_persist")
    /\ UNCHANGED <<lock, rooms_tbl, room_members, messages, clock, active_connections,
                   subscribers, nprocs, budget, peer, inbox>>
    /\ Scheduled(p, FALSE)

\* create_room: the INSERT OR IGNORE and commit, outside the lock.
CreateRoomPersist(p) ==
    /\ At(p, "create_persist")
    /\ rooms_tbl' = InsertOrIgnoreRoom(rooms_tbl, procs[p].room, "channel", Now)
    /\ clock' = clock + 1
    /\ procs' = [procs EXCEPT ![p].pc = "notify_all", ![p].ret = "200"]
    /\ UNCHANGED <<ROOMS, lock, room_members, messages, active_connections,
                   subscribers, nprocs, budget, peer, inbox, hist>>
    /\ Scheduled(p, FALSE)

\* POST /rooms/dm, by user u for the user named in the request.
StartCreateDm(users, targets) ==
    /\ \E u \in users, target \in targets :
         Begin([Idle EXCEPT !.op = "dm", !.pc = "dm_check", !.user = u, !.other = target])
    /\ UNCHANGED <<ROOMS, lock, rooms_tbl, room_members, messages, clock, active_connections,
                   subscribers, peer, inbox, hist>>

\* A create_or_get_dm that does not look the id up and always takes the write path.
CreateDmLockedAlwaysCreates(p) ==
    /\ At(p, "dm_check")
    /\ LET user_a == procs[p].user
           user_b == procs[p].other
           room_id == DmRoomId(user_a, user_b)
       IN IF user_b = user_a
          THEN procs' = Return(p, "400 cannot dm yourself")
          ELSE IF user_b \notin Users
          THEN procs' = Return(p, "404 user not found")
          ELSE /\ lock = 0
               /\ procs' = [procs EXCEPT ![p].pc = "dm_persist", ![p].room = room_id]
    /\ UNCHANGED <<ROOMS, lock, rooms_tbl, room_members, messages, clock, active_connections,
                   subscribers, nprocs, budget, peer, inbox, hist>>
    /\ Scheduled(p, FALSE)

\* A create_dm without the self-DM check.
CreateDmLockedAnyPair(p) ==
    /\ At(p, "dm_check")
    /\ LET user_a == procs[p].user
           user_b == procs[p].other
           room_id == DmRoomId(user_a, user_b)
       IN IF user_b \notin Users
          THEN /\ procs' = Return(p, "404 user not found")
               /\ UNCHANGED lock
          ELSE /\ lock = 0
               /\ IF room_id \in DOMAIN ROOMS
                  THEN /\ lock' = p
                       /\ procs' = [procs EXCEPT ![p].pc = "dm_existing", ![p].room = room_id]
                  ELSE /\ procs' = [procs EXCEPT ![p].pc = "dm_persist", ![p].room = room_id]
                       /\ UNCHANGED lock
    /\ UNCHANGED <<ROOMS, rooms_tbl, room_members, messages, clock, active_connections,
                   subscribers, nprocs, budget, peer, inbox, hist>>
    /\ Scheduled(p, FALSE)

\* create_dm: the self-DM and target-exists checks, then create_or_get_dm's first
\* section under ROOMS_LOCK. When the id is registered the lock stays held for
\* the membership query.
CreateDmLocked(p) ==
    /\ At(p, "dm_check")
    /\ LET user_a == procs[p].user
           user_b == procs[p].other
           room_id == DmRoomId(user_a, user_b)
       IN IF user_b = user_a
          THEN /\ procs' = Return(p, "400 cannot dm yourself")
               /\ UNCHANGED lock
          ELSE IF user_b \notin Users
          THEN /\ procs' = Return(p, "404 user not found")
               /\ UNCHANGED lock
          ELSE /\ lock = 0
               /\ IF room_id \in DOMAIN ROOMS
                  THEN /\ lock' = p
                       /\ procs' = [procs EXCEPT ![p].pc = "dm_existing", ![p].room = room_id]
                  ELSE /\ procs' = [procs EXCEPT ![p].pc = "dm_persist", ![p].room = room_id]
                       /\ UNCHANGED lock
    /\ UNCHANGED <<ROOMS, rooms_tbl, room_members, messages, clock, active_connections,
                   subscribers, nprocs, budget, peer, inbox, hist>>
    /\ Scheduled(p, FALSE)

\* The room description that create_or_get_dm returns.
RoomInfo(room_id, user_a, members) ==
    [room_id |-> room_id, room_type |-> "dm", members |-> members,
     display_name |-> IF members \ {user_a} = {} THEN user_a
                      ELSE CHOOSE m \in members \ {user_a} : TRUE]

\* create_or_get_dm, id registered: get_room_members under the lock, return.
CreateDmExisting(p) ==
    /\ At(p, "dm_existing")
    /\ lock = p
    /\ lock' = 0
    /\ procs' = [procs EXCEPT ![p].pc = "notify_dm", ![p].ret = "200",
                     ![p].out = RoomInfo(procs[p].room, procs[p].user, get_room_members(procs[p].room))]
    /\ hist' = [hist EXCEPT !.dm_returned = @ \cup {[room |-> procs[p].room, pair |-> {procs[p].user, procs[p].other}]}]
    /\ UNCHANGED <<ROOMS, rooms_tbl, room_members, messages, clock, active_connections,
                   subscribers, nprocs, budget, peer, inbox>>
    /\ Scheduled(p, FALSE)

\* create_or_get_dm, id not registered: the three INSERT OR IGNORE and the commit.
CreateDmPersist(p) ==
    /\ At(p, "dm_persist")
    /\ rooms_tbl' = InsertOrIgnoreRoom(rooms_tbl, procs[p].room, "dm", Now)
    /\ room_members' = room_members \cup {<<procs[p].room, procs[p].user>>, <<procs[p].room, procs[p].other>>}
    /\ clock' = clock + 1
    /\ procs' = Goto(p, "dm_register")
    /\ UNCHANGED <<ROOMS, lock, messages, active_connections,
                   subscribers, nprocs, budget, peer, inbox, hist>>
    /\ Scheduled(p, FALSE)

\* create_or_get_dm: ROOMS[room_id] = 'dm' under the lock, return.
CreateDmRegister(p) ==
    /\ At(p, "dm_register")
    /\ lock = 0
    /\ ROOMS' = MapSet(ROOMS, procs[p].room, "dm")
    /\ procs' = [procs EXCEPT ![p].pc = "notify_dm", ![p].ret = "200",
                     ![p].out = RoomInfo(procs[p].room, procs[p].user, {procs[p].user, procs[p].other})]
    /\ hist' = [Registered(procs[p].room, "dm") EXCEPT
                    !.dm_returned = @ \cup {[room |-> procs[p].room, pair |-> {procs[p].user, procs[p].other}]}]
    /\ UNCHANGED <<lock, rooms_tbl, room_members, messages, clock, active_connections,
                   subscribers, nprocs, budget, peer, inbox>>
    /\ Scheduled(p, FALSE)

\* DELETE /rooms/{room_id}, by an admin (require_admin).
StartDeleteRoom(admins, rooms) ==
    /\ \E u \in admins, r \in rooms :
         Begin([Idle EXCEPT !.op = "delete", !.pc = "delete_room", !.user = u, !.room = r])
    /\ UNCHANGED <<ROOMS, lock, rooms_tbl, room_members, messages, clock, active_connections,
                   subscribers, peer, inbox, hist>>

\* delete_room: the section under ROOMS_LOCK.
DeleteRoomLocked(p) ==
    /\ At(p, "delete_room")
    /\ lock = 0
    /\ IF procs[p].room \notin DOMAIN ROOMS
       THEN /\ procs' = Return(p, "404 room not found")
            /\ UNCHANGED ROOMS
       ELSE /\ ROOMS' = MapDel(ROOMS, procs[p].room)
            /\ procs' = Goto(p, "delete_persist")
    /\ UNCHANGED <<lock, rooms_tbl, room_members, messages, clock, active_connections,
                   subscribers, nprocs, budget, peer, inbox, hist>>
    /\ Scheduled(p, FALSE)

\* delete_room: the UPDATE and commit, outside the lock.
DeleteRoomPersist(p) ==
    /\ At(p, "delete_persist")
    /\ rooms_tbl' = SoftDeleteRoom(rooms_tbl, procs[p].room, Now, procs[p].user)
    /\ clock' = clock + 1
    /\ procs' = [procs EXCEPT ![p].pc = "notify_all", ![p].ret = "200"]
    /\ UNCHANGED <<ROOMS, lock, room_members, messages, active_connections,
                   subscribers, nprocs, budget, peer, inbox, hist>>
    /\ Scheduled(p, FALSE)

-----------------------------------------------------------------------------
(* Process start: main.py startup_event, rooms/services.py load_rooms_from_db *)

\* SELECT room_id, room_type FROM rooms WHERE deleted = 0, as the map it fills.
StoredRooms(tbl) == [r \in {x \in DOMAIN tbl : ~tbl[x].deleted} |-> tbl[r].room_type]

\* SELECT DISTINCT m.room_id FROM messages m LEFT JOIN rooms r ON ... WHERE
\* r.room_id IS NULL: the ids of the message log that have no rooms row at all.
OrphanRoomIds(tbl, msgs) == {msgs[i].room_id : i \in DOMAIN msgs} \ DOMAIN tbl

\* A load that does not look at the message log.
LoadStoredOnly(tbl, msgs, now) == [registry |-> StoredRooms(tbl), rooms |-> tbl]

\* load_rooms_from_db(), from an empty ROOMS: the registry it leaves and the rooms
\* table after the backfill INSERTs and the commit.
load_rooms_from_db(tbl, msgs, now) ==
    [registry |-> [r \in DOMAIN StoredRooms(tbl) \cup OrphanRoomIds(tbl, msgs) |->
                      IF r \in OrphanRoomIds(tbl, msgs) THEN "channel" ELSE StoredRooms(tbl)[r]],
     rooms |-> [r \in DOMAIN tbl \cup OrphanRoomIds(tbl, msgs) |->
                   IF r \in DOMAIN tbl THEN tbl[r]
                   ELSE [room_type |-> "channel", created_at |-> now, deleted |-> FALSE,
                         deleted_at |-> 0, deleted_by |-> NoUser]]]

\* History: the creates that this stop of the process finds between their entry
\* in ROOMS and their INSERT, with the number of the start that follows and the
\* number of requests received so far.
Reservations ==
    {[by |-> p, room |-> procs[p].room, load |-> hist.loads + 1, upto |-> nprocs] :
        p \in {q \in Started : procs[q].op = "create" /\ procs[q].pc = "create_persist"}}

\* The process stops at any point and starts again: every handler in flight and
\* every connection is gone, the memory of the old process with them, and
\* startup_event runs load_rooms_from_db() before any request is served.
startup_event ==
    /\ budget > 0
    /\ budget' = budget - 1
    /\ LET loaded == load_rooms_from_db(rooms_tbl, messages, Now)
       IN /\ ROOMS' = loaded.registry
          /\ rooms_tbl' = loaded.rooms
          /\ hist' = [hist EXCEPT !.loads = @ + 1,
                                  !.types = @ \cup {[room |-> r, type |-> loaded.registry[r]] :
                                                       r \in DOMAIN loaded.registry},
                                  !.reserved = @ \cup Reservations]
    /\ clock' = clock + 1
    /\ lock' = 0
    /\ running' = 0
    /\ active_connections' = EmptyMap
    /\ subscribers' = EmptyMap
    /\ procs' = [p \in ProcIds |->
                    IF p \in Started /\ procs[p].pc # "done"
                    THEN [procs[p] EXCEPT !.pc = "done", !.ret = "crashed"]
                    ELSE procs[p]]
    /\ peer' = [p \in ProcIds |-> IF peer[p] = "up" THEN "gone" ELSE peer[p]]
    /\ UNCHANGED <<room_members, messages, nprocs, sched, inbox>>

-----------------------------------------------------------------------------
(* Connection broadcaster: rooms/websocket.py *)

\* ConnectionManager.connect, after the accept: add the connection to the room's set.
Connect(conns, websocket, room_id) ==
    IF room_id \in DOMAIN conns
    THEN [conns EXCEPT ![room_id] = @ \cup {websocket}]
    ELSE MapSet(conns, room_id, {websocket})

\* A disconnect that leaves the emptied set in the map.
DisconnectKeepsEntry(conns, websocket, room_id) ==
    IF room_id \in DOMAIN conns THEN [conns EXCEPT ![room_id] = @ \ {websocket}] ELSE conns

\* ConnectionManager.disconnect: discard, and delete the room's entry when it is empty.
Disconnect(conns, websocket, room_id) ==
    IF room_id \in DOMAIN conns
    THEN IF conns[room_id] \ {websocket} = {}
         THEN MapDel(conns, room_id)
         ELSE [conns EXCEPT ![room_id] = @ \ {websocket}]
    ELSE conns

\* broadcast_to_room: for connection in disconnected: self.disconnect(connection, room_id)
RECURSIVE DisconnectEach(_, _, _)
DisconnectEach(conns, disconnected, room_id) ==
    IF disconnected = {} THEN conns
    ELSE LET c == CHOOSE x \in disconnected : TRUE
         IN DisconnectEach(Disconnect(conns, c, room_id), disconnected \ {c}, room_id)

\* History: handler p tries a send to connection c; the attempt is recorded when c
\* had been disconnected before p took its copy of the set.
LateAttempt(p, c) == IF c \in procs[p].disc0 THEN {[by |-> p, conn |-> c]} ELSE {}

\* A send on a connection succeeds while the client is there and the handler that
\* owns the socket has not ended; otherwise send_json raises.
SendSucceeds(c) == peer[c] = "up" /\ procs[c].pc # "done"

\* SendMessageResponse(status="ok", message=message): MessageResponse requires id,
\* username, message and timestamp; a missing field fails validation (HTTP 500).
SendMessageResponseStatus(message) ==
    IF {"id", "username", "message", "timestamp"} \subseteq DOMAIN message THEN "200"
    ELSE "500 response validation"

\* Where a handler goes on when its broadcast_to_room call has returned.
AfterBroadcast(p) ==
    IF procs[p].op = "send"
    THEN [procs EXCEPT ![p].pc = "done", ![p].ret = SendMessageResponseStatus(procs[p].ev.data),
                       ![p].out = procs[p].ev.data, ![p].ev = NoEvent,
                       ![p].snap0 = {}, ![p].failed = {}, ![p].disc0 = {}]
    ELSE [procs EXCEPT ![p].pc = "ws_receive", ![p].ev = NoEvent,
                       ![p].snap0 = {}, ![p].failed = {}, ![p].disc0 = {}]

\* A broadcast that copies the connections of every room.
BroadcastSnapshotAllRooms(p) ==
    /\ At(p, "broadcast")
    /\ IF procs[p].room \notin DOMAIN active_connections
       THEN procs' = AfterBroadcast(p)
       ELSE procs' = [procs EXCEPT ![p].pc = "broadcast_send",
                          ![p].snap = UNION {active_connections[r] : r \in DOMAIN active_connections},
                          ![p].failed = {},
                          ![p].snap0 = UNION {active_connections[r] : r \in DOMAIN active_connections},
                          ![p].disc0 = hist.disconnected]
    /\ UNCHANGED <<ROOMS, lock, rooms_tbl, room_members, messages, clock, active_connections,
                   subscribers, nprocs, budget, peer, inbox, hist>>
    /\ Scheduled(p, FALSE)

\* broadcast_to_room: the membership test and the copy of the room's set.
BroadcastSnapshot(p) ==
    /\ At(p, "broadcast")
    /\ IF procs[p].room \notin DOMAIN active_connections
       THEN procs' = AfterBroadcast(p)
       ELSE procs' = [procs EXCEPT ![p].pc = "broadcast_send",
                          ![p].snap = active_connections[procs[p].room], ![p].failed = {},
                          ![p].snap0 = active_connections[procs[p].room],
                          ![p].disc0 = hist.disconnected]
    /\ UNCHANGED <<ROOMS, lock, rooms_tbl, room_members, messages, clock, active_connections,
                   subscribers, nprocs, budget, peer, inbox, hist>>
    /\ Scheduled(p, FALSE)

\* A send loop without the try: the first failure ends it.
BroadcastSendRaises(p, c) ==
    /\ At(p, "broadcast_send")
    /\ c \in procs[p].snap
    /\ hist' = [hist EXCEPT !.late_attempts = @ \cup LateAttempt(p, c)]
    /\ IF SendSucceeds(c)
       THEN /\ inbox' = [inbox EXCEPT ![c] = Append(@, procs[p].ev)]
            /\ procs' = [procs EXCEPT ![p].snap = @ \ {c}]
       ELSE /\ procs' = [procs EXCEPT ![p].snap = {}, ![p].failed = @ \cup {c}]
            /\ UNCHANGED inbox
    /\ UNCHANGED <<ROOMS, lock, rooms_tbl, room_members, messages, clock, active_connections,
                   subscribers, nprocs, budget, peer>>
    /\ Scheduled(p, TRUE)

\* A send loop over the room's set itself: it also reaches the connections that
\* were added after the call began.
BroadcastSendLive(p, c) ==
    /\ At(p, "broadcast_send")
    /\ c \in procs[p].snap \cup (SetOf(active_connections, procs[p].room) \ procs[p].snap0)
    /\ hist' = [hist EXCEPT !.late_attempts = @ \cup LateAttempt(p, c)]
    /\ IF SendSucceeds(c)
       THEN /\ inbox' = [inbox EXCEPT ![c] = Append(@, procs[p].ev)]
            /\ procs' = [procs EXCEPT ![p].snap = @ \ {c}]
       ELSE /\ procs' = [procs EXCEPT ![p].snap = @ \ {c}, ![p].failed = @ \cup {c}]
            /\ UNCHANGED inbox
    /\ UNCHANGED <<ROOMS, lock, rooms_tbl, room_members, messages, clock, active_connections,
                   subscribers, nprocs, budget, peer>>
    /\ Scheduled(p, TRUE)

\* broadcast_to_room: one await connection.send_json(message) of the loop over the
\* copy. The iteration order of a set is not specified.
BroadcastSend(p, c) ==
    /\ At(p, "broadcast_send")
    /\ c \in procs[p].snap
    /\ hist' = [hist EXCEPT !.late_attempts = @ \cup LateAttempt(p, c)]
    /\ IF SendSucceeds(c)
       THEN /\ inbox' = [inbox EXCEPT ![c] = Append(@, procs[p].ev)]
            /\ procs' = [procs EXCEPT ![p].snap = @ \ {c}]
       ELSE /\ procs' = [procs EXCEPT ![p].snap = @ \ {c}, ![p].failed = @ \cup {c}]
            /\ UNCHANGED inbox
    /\ UNCHANGED <<ROOMS, lock, rooms_tbl, room_members, messages, clock, active_connections,
                   subscribers, nprocs, budget, peer>>
    /\ Scheduled(p, TRUE)

\* broadcast_to_room: the loop is over; disconnect the connections whose send raised.
BroadcastPrune(p) ==
    /\ At(p, "broadcast_send")
    /\ procs[p].snap = {}
    /\ active_connections' = DisconnectEach(active_connections, procs[p].failed, procs[p].room)
    /\ hist' = [hist EXCEPT !.disconnected = @ \cup procs[p].failed, !.pruned = @ \cup procs[p].failed]
    /\ procs' = AfterBroadcast(p)
    /\ UNCHANGED <<ROOMS, lock, rooms_tbl, room_members, messages, clock,
                   subscribers, nprocs, budget, peer, inbox>>
    /\ Scheduled(p, FALSE)

-----------------------------------------------------------------------------
(* Room access: rooms/routes.py _check_room_access and websocket_endpoint *)

\* The access check has let the handler through.
Granted(p) ==
    [procs EXCEPT ![p].granted = TRUE,
                  ![p].pc = CASE procs[p].op = "fetch" -> "get_messages"
                              [] procs[p].op = "send" -> "add_message"
                              [] procs[p].op = "ws" -> "ws_connect"]

\* The access check has refused: HTTP 403, or close(1008) on a push upgrade.
Refused(p) ==
    Return(p, IF procs[p].op = "ws" THEN "closed 1008 not a member" ELSE "403 not a member")

\* room_exists(room_id)
AccessRoomExists(p) ==
    /\ At(p, "access")
    /\ lock = 0
    /\ procs' = Goto(p, IF procs[p].room \in DOMAIN ROOMS THEN "access_type" ELSE "access_ensure")
    /\ UNCHANGED <<ROOMS, lock, rooms_tbl, room_members, messages, clock, active_connections,
                   subscribers, nprocs, budget, peer, inbox, hist>>
    /\ Scheduled(p, FALSE)

\* An access check that goes on without registering the unknown id.
EnsureRoomSkipped(p) ==
    /\ At(p, "access_ensure")
    /\ lock = 0
    /\ procs' = [procs EXCEPT ![p].pc = "access_type",
                     ![p].implicit = (procs[p].op = "send" /\ procs[p].room \notin DOMAIN ROOMS)]
    /\ UNCHANGED <<ROOMS, lock, rooms_tbl, room_members, messages, clock, active_connections,
                   subscribers, nprocs, budget, peer, inbox, hist>>
    /\ Scheduled(p, FALSE)

\* ensure_room_exists(room_id)
ensure_room_exists(p) ==
    /\ At(p, "access_ensure")
    /\ lock = 0
    /\ IF procs[p].room \notin DOMAIN ROOMS
       THEN /\ ROOMS' = MapSet(ROOMS, procs[p].room, "channel")
            /\ hist' = Registered(procs[p].room, "channel")
       ELSE UNCHANGED <<ROOMS, hist>>
    /\ procs' = [procs EXCEPT ![p].pc = "access_type",
                     ![p].implicit = (procs[p].op = "send" /\ procs[p].room \notin DOMAIN ROOMS)]
    /\ UNCHANGED <<lock, rooms_tbl, room_members, messages, clock, active_connections,
                   subscribers, nprocs, budget, peer, inbox>>
    /\ Scheduled(p, FALSE)

\* room_type = get_room_type(room_id); only a 'dm' goes on to the membership test.
AccessRoomType(p) ==
    /\ At(p, "access_type")
    /\ lock = 0
    /\ LET room_type == IF procs[p].room \in DOMAIN ROOMS THEN ROOMS[procs[p].room] ELSE "None"
       IN procs' = IF room_type = "dm"
                   THEN [procs EXCEPT ![p].pc = "access_members", ![p].rtype = room_type]
                   ELSE [Granted(p) EXCEPT ![p].rtype = room_type]
    /\ UNCHANGED <<ROOMS, lock, rooms_tbl, room_members, messages, clock, active_connections,
                   subscribers, nprocs, budget, peer, inbox, hist>>
    /\ Scheduled(p, FALSE)

\* members = get_room_members(room_id); if username not in members: refuse.
AccessMembers(p) ==
    /\ At(p, "access_members")
    /\ procs' = IF procs[p].user \notin get_room_members(procs[p].room) THEN Refused(p) ELSE Granted(p)
    /\ UNCHANGED <<ROOMS, lock, rooms_tbl, room_members, messages, clock, active_connections,
                   subscribers, nprocs, budget, peer, inbox, hist>>
    /\ Scheduled(p, FALSE)

\* GET /rooms/{room_id}/messages
StartGetMessages(users, rooms) ==
    /\ \E u \in users, r \in rooms :
         Begin([Idle EXCEPT !.op = "fetch", !.pc = "access", !.user = u, !.room = r])
    /\ UNCHANGED <<ROOMS, lock, rooms_tbl, room_members, messages, clock, active_connections,
                   subscribers, peer, inbox, hist>>

\* get_room_messages: room.get_messages(since) and the response.
GetMessages(p) ==
    /\ At(p, "get_messages")
    /\ procs' = [procs EXCEPT ![p].pc = "done", ![p].ret = "200",
                     ![p].out = get_messages(procs[p].room, 0)]
    /\ UNCHANGED <<ROOMS, lock, rooms_tbl, room_members, messages, clock, active_connections,
                   subscribers, nprocs, budget, peer, inbox, hist>>
    /\ Scheduled(p, FALSE)

\* GET /rooms
StartListRooms(users) ==
    /\ \E u \in users : Begin([Idle EXCEPT !.op = "list", !.pc = "list_rooms", !.user = u])
    /\ UNCHANGED <<ROOMS, lock, rooms_tbl, room_members, messages, clock, active_connections,
                   subscribers, peer, inbox, hist>>

\* list_rooms: get_user_rooms(username) and the response.
ListRooms(p) ==
    /\ At(p, "list_rooms")
    /\ procs' = [procs EXCEPT ![p].pc = "done", ![p].ret = "200",
                     ![p].out = get_user_rooms(procs[p].user)]
    /\ UNCHANGED <<ROOMS, lock, rooms_tbl, room_members, messages, clock, active_connections,
                   subscribers, nprocs, budget, peer, inbox, hist>>
    /\ Scheduled(p, FALSE)

\* POST /rooms/{room_id}/messages with a body that may carry a "username" key
\* next to "message" (SendMessageRequest has the one field message).
StartSendMessageAs(users, rooms, claimed) ==
    /\ \E u \in users, r \in rooms, body \in Bodies, c \in claimed :
         Begin([Idle EXCEPT !.op = "send", !.pc = "access", !.user = u, !.room = r,
                            !.frame = [json |-> "object", type |-> "message", message |-> body,
                                       username |-> c]])
    /\ UNCHANGED <<ROOMS, lock, rooms_tbl, room_members, messages, clock, active_connections,
                   subscribers, peer, inbox, hist>>

\* POST /rooms/{room_id}/messages
StartSendMessage(users, rooms) == StartSendMessageAs(users, rooms, {NoUser})

\* History: the id of the row that this append writes, when the room is registered
\* as a DM at that moment.
AppendedToDm(room_id) ==
    [hist EXCEPT !.dm_rows = @ \cup (IF room_id \in DOMAIN ROOMS /\ ROOMS[room_id] = "dm"
                                      THEN {Len(messages) + 1} ELSE {})]

\* An add_message whose author is the name in the frame when the client gave one.
AddMessageTrustsFrame(p) ==
    /\ At(p, "add_message")
    /\ LET author == IF procs[p].frame.username # NoUser THEN procs[p].frame.username
                     ELSE procs[p].user
       IN /\ messages' = InsertMessage(procs[p].room, author, procs[p].frame.message, Now)
          /\ procs' = [procs EXCEPT ![p].pc = "broadcast",
                           ![p].ev = MessageEvent(AddMessageResult(author, procs[p].frame.message, Now))]
    /\ clock' = clock + 1
    /\ hist' = AppendedToDm(procs[p].room)
    /\ UNCHANGED <<ROOMS, lock, rooms_tbl, room_members, active_connections,
                   subscribers, nprocs, budget, peer, inbox>>
    /\ Scheduled(p, FALSE)

\* room.add_message(username, text), on both send paths: the INSERT and commit, and
\* the event that the handler then hands to broadcast_to_room.
AddMessage(p) ==
    /\ At(p, "add_message")
    /\ messages' = InsertMessage(procs[p].room, procs[p].user, procs[p].frame.message, Now)
    /\ clock' = clock + 1
    /\ procs' = [procs EXCEPT ![p].pc = "broadcast",
                     ![p].ev = MessageEvent(AddMessageResult(procs[p].user, procs[p].frame.message, Now))]
    /\ hist' = AppendedToDm(procs[p].room)
    /\ UNCHANGED <<ROOMS, lock, rooms_tbl, room_members, active_connections,
                   subscribers, nprocs, budget, peer, inbox>>
    /\ Scheduled(p, FALSE)

-----------------------------------------------------------------------------
(* Identity *)

\* decoded.split(':')[0]
RECURSIVE BeforeColon(_)
BeforeColon(s) ==
    IF s = <<>> \/ Head(s) = ":" THEN <<>> ELSE <<Head(s)>> \o BeforeColon(Tail(s))

\* verify_token(token): the username the token names when it is a row of users, else None.
verify_token(token) ==
    IF BeforeColon(token) \in Users THEN BeforeColon(token) ELSE NoUser

-----------------------------------------------------------------------------
(* Room session: rooms/routes.py websocket_endpoint *)

\* A client opens a push connection on /rooms/{room_id}/ws?token=...
StartWebSocket(tokens, rooms) ==
    /\ \E token \in tokens, r \in rooms :
         Begin([Idle EXCEPT !.op = "ws", !.pc = "ws_auth", !.token = token, !.room = r])
    /\ peer' = [peer EXCEPT ![nprocs + 1] = "up"]
    /\ UNCHANGED <<ROOMS, lock, rooms_tbl, room_members, messages, clock, active_connections,
                   subscribers, inbox, hist>>

\* A token check that forgets the test of verify_token's result.
WsAuthUnchecked(p) ==
    /\ At(p, "ws_auth")
    /\ procs' = IF procs[p].token = NoToken THEN Return(p, "closed 1008 authentication required")
                ELSE [procs EXCEPT ![p].pc = "access", ![p].user = verify_token(procs[p].token)]
    /\ UNCHANGED <<ROOMS, lock, rooms_tbl, room_members, messages, clock, active_connections,
                   subscribers, nprocs, budget, peer, inbox, hist>>
    /\ Scheduled(p, FALSE)

\* if not token: close(1008); username = verify_token(token); if not username: close(1008)
WsAuth(p) ==
    /\ At(p, "ws_auth")
    /\ procs' = IF procs[p].token = NoToken THEN Return(p, "closed 1008 authentication required")
                ELSE IF verify_token(procs[p].token) = NoUser THEN Return(p, "closed 1008 invalid token")
                ELSE [procs EXCEPT ![p].pc = "access", ![p].user = verify_token(procs[p].token)]
    /\ UNCHANGED <<ROOMS, lock, rooms_tbl, room_members, messages, clock, active_connections,
                   subscribers, nprocs, budget, peer, inbox, hist>>
    /\ Scheduled(p, FALSE)

\* A connect that gives up the event loop between the registration and the
\* confirmation.
WsConnectYields(p) ==
    /\ At(p, "ws_connect")
    /\ IF peer[p] = "up"
       THEN /\ active_connections' = Connect(active_connections, p, procs[p].room)
            /\ procs' = [procs EXCEPT ![p].pc = "ws_confirm", ![p].regat = Len(messages)]
       ELSE /\ procs' = Return(p, "error accept")
            /\ UNCHANGED active_connections
    /\ UNCHANGED <<ROOMS, lock, rooms_tbl, room_members, messages, clock,
                   subscribers, nprocs, budget, peer, inbox, hist>>
    /\ Scheduled(p, TRUE)

\* await manager.connect(websocket, room_id): the accept, then the registration.
\* An accept on a connection whose client has gone raises out of the handler.
WsConnect(p) ==
    /\ At(p, "ws_connect")
    /\ IF peer[p] = "up"
       THEN /\ active_connections' = Connect(active_connections, p, procs[p].room)
            /\ procs' = [procs EXCEPT ![p].pc = "ws_confirm", ![p].regat = Len(messages)]
       ELSE /\ procs' = Return(p, "error accept")
            /\ UNCHANGED active_connections
    /\ UNCHANGED <<ROOMS, lock, rooms_tbl, room_members, messages, clock,
                   subscribers, nprocs, budget, peer, inbox, hist>>
    /\ Scheduled(p, FALSE)

\* A session end that does not unregister.
WsClosedStaysRegistered(p, status) ==
    /\ UNCHANGED active_connections
    /\ hist' = [hist EXCEPT !.disconnected = @ \cup {p}]
    /\ procs' = Return(p, status)

\* The handler's except clauses: manager.disconnect(websocket, room_id), and the end.
WsClosed(p, status) ==
    /\ active_connections' = Disconnect(active_connections, p, procs[p].room)
    /\ hist' = [hist EXCEPT !.disconnected = @ \cup {p}]
    /\ procs' = Return(p, status)

\* await websocket.send_json({"type": "connected", ...}), inside the try.
WsConfirm(p) ==
    /\ At(p, "ws_confirm")
    /\ IF SendSucceeds(p)
       THEN /\ inbox' = [inbox EXCEPT ![p] = Append(@, ConnectedEvent(procs[p].room, procs[p].user))]
            /\ procs' = Goto(p, "ws_receive")
            /\ UNCHANGED <<active_connections, hist>>
       ELSE /\ WsClosed(p, "error")
            /\ UNCHANGED inbox
    /\ UNCHANGED <<ROOMS, lock, rooms_tbl, room_members, messages, clock,
                   subscribers, nprocs, budget, peer>>
    /\ Scheduled(p, FALSE)

\* A receive that handles every tagged event as a message.
WsReceiveAnyType(p, f) ==
    /\ f \in Frames \cup SpoofedFrames
    /\ At(p, "ws_receive")
    /\ peer[p] = "up"
    /\ budget > 0
    /\ budget' = budget - 1
    /\ IF f.json = "invalid"
       THEN /\ procs' = [procs EXCEPT ![p].pc = "ws_error_reply", ![p].frame = f]
            /\ UNCHANGED <<active_connections, hist>>
       ELSE IF f.json # "object"
       THEN /\ active_connections' = Disconnect(active_connections, p, procs[p].room)
            /\ hist' = [hist EXCEPT !.disconnected = @ \cup {p}]
            /\ procs' = [procs EXCEPT ![p].pc = "done", ![p].ret = "error", ![p].frame = f]
       ELSE /\ procs' = [procs EXCEPT ![p].pc = "add_message", ![p].frame = f]
            /\ UNCHANGED <<active_connections, hist>>
    /\ UNCHANGED <<ROOMS, lock, rooms_tbl, room_members, messages, clock,
                   subscribers, nprocs, peer, inbox>>
    /\ Scheduled(p, FALSE)

\* data = await websocket.receive_text(); payload = json.loads(data);
\* if payload.get("type") == "message": ...   except json.JSONDecodeError: ...
\* json.loads raises JSONDecodeError on text that is no JSON; payload.get raises
\* AttributeError on JSON that is no object, which only the outer except catches.
WsReceive(p, f) ==
    /\ f \in Frames \cup SpoofedFrames
    /\ At(p, "ws_receive")
    /\ peer[p] = "up"
    /\ budget > 0
    /\ budget' = budget - 1
    /\ IF f.json = "invalid"
       THEN /\ procs' = [procs EXCEPT ![p].pc = "ws_error_reply", ![p].frame = f]
            /\ UNCHANGED <<active_connections, hist>>
       ELSE IF f.json # "object"
       THEN /\ active_connections' = Disconnect(active_connections, p, procs[p].room)
            /\ hist' = [hist EXCEPT !.disconnected = @ \cup {p}]
            /\ procs' = [procs EXCEPT ![p].pc = "done", ![p].ret = "error", ![p].frame = f]
       ELSE IF f.type = "message"
       THEN /\ procs' = [procs EXCEPT ![p].pc = "add_message", ![p].frame = f]
            /\ UNCHANGED <<active_connections, hist>>
       ELSE /\ procs' = [procs EXCEPT ![p].frame = f]
            /\ UNCHANGED <<active_connections, hist>>
    /\ UNCHANGED <<ROOMS, lock, rooms_tbl, room_members, messages, clock,
                   subscribers, nprocs, peer, inbox>>
    /\ Scheduled(p, FALSE)

\* receive_text raises WebSocketDisconnect when the client has gone.
WsReceiveDisconnect(p) ==
    /\ At(p, "ws_receive")
    /\ peer[p] = "gone"
    /\ WsClosed(p, "disconnected")
    /\ UNCHANGED <<ROOMS, lock, rooms_tbl, room_members, messages, clock,
                   subscribers, nprocs, budget, peer, inbox>>
    /\ Scheduled(p, FALSE)

\* except json.JSONDecodeError: await websocket.send_json({"type": "error", ...})
WsErrorReply(p) ==
    /\ At(p, "ws_error_reply")
    /\ IF SendSucceeds(p)
       THEN /\ inbox' = [inbox EXCEPT ![p] = Append(@, ErrorEvent)]
            /\ procs' = Goto(p, "ws_receive")
            /\ UNCHANGED <<active_connections, hist>>
       ELSE /\ WsClosed(p, "error")
            /\ UNCHANGED inbox
    /\ UNCHANGED <<ROOMS, lock, rooms_tbl, room_members, messages, clock,
                   subscribers, nprocs, budget, peer>>
    /\ Scheduled(p, FALSE)

\* The client end of a push connection goes away.
PeerDrop(c) ==
    /\ c \in Started
    /\ peer[c] = "up"
    /\ procs[c].pc # "done"
    /\ budget > 0
    /\ budget' = budget - 1
    /\ peer' = [peer EXCEPT ![c] = "gone"]
    /\ UNCHANGED <<ROOMS, lock, rooms_tbl, room_members, messages, clock, active_connections,
                   subscribers, procs, nprocs, sched, running, inbox, hist>>

-----------------------------------------------------------------------------
(* List subscriptions: subscriptions.py and rooms/routes.py rooms_list_ws *)

\* ListSubscriptionManager.connect, after the accept.
Subscribe(subs, websocket, username) ==
    IF username \in DOMAIN subs
    THEN [subs EXCEPT ![username] = @ \cup {websocket}]
    ELSE MapSet(subs, username, {websocket})

\* ListSubscriptionManager.disconnect
Unsubscribe(subs, websocket, username) ==
    IF username \in DOMAIN subs
    THEN IF subs[username] \ {websocket} = {}
         THEN MapDel(subs, username)
         ELSE [subs EXCEPT ![username] = @ \ {websocket}]
    ELSE subs

\* notify: for ws in disconnected: self.disconnect(ws, username)
RECURSIVE UnsubscribeEach(_, _, _)
UnsubscribeEach(subs, disconnected, username) ==
    IF disconnected = {} THEN subs
    ELSE LET c == CHOOSE x \in disconnected : TRUE
         IN UnsubscribeEach(Unsubscribe(subs, c, username), disconnected \ {c}, username)

\* The orders in which a set of keys can be listed.
Orders(S) == {q \in [1..Cardinality(S) -> S] : \A x \in S : \E i \in DOMAIN q : q[i] = x}

\* A client opens a push connection on /rooms?token=...
StartListWs(tokens) ==
    /\ \E token \in tokens :
         Begin([Idle EXCEPT !.op = "listws", !.pc = "list_auth", !.token = token])
    /\ peer' = [peer EXCEPT ![nprocs + 1] = "up"]
    /\ UNCHANGED <<ROOMS, lock, rooms_tbl, room_members, messages, clock, active_connections,
                   subscribers, inbox, hist>>

\* rooms_list_ws: the token checks.
ListAuth(p) ==
    /\ At(p, "list_auth")
    /\ procs' = IF procs[p].token = NoToken THEN Return(p, "closed 1008 authentication required")
                ELSE IF verify_token(procs[p].token) = NoUser THEN Return(p, "closed 1008 invalid token")
                ELSE [procs EXCEPT ![p].pc = "list_connect", ![p].user = verify_token(procs[p].token)]
    /\ UNCHANGED <<ROOMS, lock, rooms_tbl, room_members, messages, clock, active_connections,
                   subscribers, nprocs, budget, peer, inbox, hist>>
    /\ Scheduled(p, FALSE)

\* await rooms_subscriptions.connect(websocket, username)
ListConnect(p) ==
    /\ At(p, "list_connect")
    /\ IF peer[p] = "up"
       THEN /\ subscribers' = Subscribe(subscribers, p, procs[p].user)
            /\ procs' = Goto(p, "list_receive")
       ELSE /\ procs' = Return(p, "error accept")
            /\ UNCHANGED subscribers
    /\ UNCHANGED <<ROOMS, lock, rooms_tbl, room_members, messages, clock,
                   active_connections, nprocs, budget, peer, inbox, hist>>
    /\ Scheduled(p, FALSE)

\* while True: await websocket.receive_text()   -- the text is dropped
ListReceive(p) ==
    /\ At(p, "list_receive")
    /\ peer[p] = "up"
    /\ budget > 0
    /\ budget' = budget - 1
    /\ UNCHANGED <<ROOMS, lock, rooms_tbl, room_members, messages, clock, active_connections,
                   subscribers, procs, nprocs, sched, running, peer, inbox, hist>>

\* except WebSocketDisconnect / except Exception: rooms_subscriptions.disconnect(...)
ListReceiveDisconnect(p) ==
    /\ At(p, "list_receive")
    /\ peer[p] = "gone"
    /\ subscribers' = Unsubscribe(subscribers, p, procs[p].user)
    /\ hist' = [hist EXCEPT !.disconnected = @ \cup {p}]
    /\ procs' = Return(p, "disconnected")
    /\ UNCHANGED <<ROOMS, lock, rooms_tbl, room_members, messages, clock,
                   active_connections, nprocs, budget, peer, inbox>>
    /\ Scheduled(p, FALSE)

\* notify_all: for username in list(self.subscribers.keys()). The keys are taken
\* in any order here (the dict yields them in order of first subscription).
NotifyAll(p) ==
    /\ At(p, "notify_all")
    /\ \E order \in Orders(DOMAIN subscribers) :
         procs' = [procs EXCEPT ![p].pc = "notify", ![p].keys = order, ![p].ev = UpdateEvent,
                          ![p].subs0 = UNION {subscribers[u] : u \in DOMAIN subscribers}]
    /\ UNCHANGED <<ROOMS, lock, rooms_tbl, room_members, messages, clock, active_connections,
                   subscribers, nprocs, budget, peer, inbox, hist>>
    /\ Scheduled(p, FALSE)

\* A create_dm that notifies the caller only.
NotifyDmCallerOnly(p) ==
    /\ At(p, "notify_dm")
    /\ procs' = [procs EXCEPT ![p].pc = "notify", ![p].keys = <<procs[p].user>>,
                     ![p].ev = UpdateEvent,
                     ![p].subs0 = SetOf(subscribers, procs[p].user)
                                    \cup SetOf(subscribers, procs[p].other)]
    /\ UNCHANGED <<ROOMS, lock, rooms_tbl, room_members, messages, clock, active_connections,
                   subscribers, nprocs, budget, peer, inbox, hist>>
    /\ Scheduled(p, FALSE)

\* create_dm: notify(username, ...) and then notify(request.username, ...)
NotifyDm(p) ==
    /\ At(p, "notify_dm")
    /\ procs' = [procs EXCEPT ![p].pc = "notify", ![p].keys = <<procs[p].user, procs[p].other>>,
                     ![p].ev = UpdateEvent,
                     ![p].subs0 = SetOf(subscribers, procs[p].user)
                                    \cup SetOf(subscribers, procs[p].other)]
    /\ UNCHANGED <<ROOMS, lock, rooms_tbl, room_members, messages, clock, active_connections,
                   subscribers, nprocs, budget, peer, inbox, hist>>
    /\ Scheduled(p, FALSE)

\* notify(username, event) for the next key: the membership test and the copy of
\* the user's set; with no key left the handler returns its response.
Notify(p) ==
    /\ At(p, "notify")
    /\ procs' = IF procs[p].keys = <<>>
                THEN [procs EXCEPT ![p].pc = "done", ![p].ev = NoEvent, ![p].subs0 = {}, ![p].sent = {}]
                ELSE IF Head(procs[p].keys) \notin DOMAIN subscribers
                THEN [procs EXCEPT ![p].keys = Tail(@)]
                ELSE [procs EXCEPT ![p].pc = "notify_send", ![p].key = Head(procs[p].keys),
                          ![p].keys = Tail(@), ![p].snap = subscribers[Head(procs[p].keys)],
                          ![p].failed = {}, ![p].snap0 = subscribers[Head(procs[p].keys)],
                          ![p].disc0 = hist.disconnected]
    /\ UNCHANGED <<ROOMS, lock, rooms_tbl, room_members, messages, clock, active_connections,
                   subscribers, nprocs, budget, peer, inbox, hist>>
    /\ Scheduled(p, FALSE)

\* notify: one await ws.send_json(event) of the loop over the copy.
NotifySend(p, c) ==
    /\ At(p, "notify_send")
    /\ c \in procs[p].snap
    /\ hist' = [hist EXCEPT !.late_attempts = @ \cup LateAttempt(p, c)]
    /\ IF SendSucceeds(c)
       THEN /\ inbox' = [inbox EXCEPT ![c] = Append(@, procs[p].ev)]
            /\ procs' = [procs EXCEPT ![p].snap = @ \ {c}, ![p].sent = @ \cup {c}]
       ELSE /\ procs' = [procs EXCEPT ![p].snap = @ \ {c}, ![p].failed = @ \cup {c}]
            /\ UNCHANGED inbox
    /\ UNCHANGED <<ROOMS, lock, rooms_tbl, room_members, messages, clock, active_connections,
                   subscribers, nprocs, budget, peer>>
    /\ Scheduled(p, TRUE)

\* A notify whose failures end the caller's loop over the other users.
NotifyPruneAborts(p) ==
    /\ At(p, "notify_send")
    /\ procs[p].snap = {}
    /\ subscribers' = UnsubscribeEach(subscribers, procs[p].failed, procs[p].key)
    /\ hist' = [hist EXCEPT !.disconnected = @ \cup procs[p].failed, !.pruned = @ \cup procs[p].failed]
    /\ procs' = [procs EXCEPT ![p].pc = "notify", ![p].key = NoUser,
                     ![p].keys = IF procs[p].failed = {} THEN @ ELSE <<>>,
                     ![p].snap0 = {}, ![p].failed = {}, ![p].disc0 = {}]
    /\ UNCHANGED <<ROOMS, lock, rooms_tbl, room_members, messages, clock,
                   active_connections, nprocs, budget, peer, inbox>>
    /\ Scheduled(p, FALSE)

\* notify: the loop is over; disconnect the connections whose send raised.
NotifyPrune(p) ==
    /\ At(p, "notify_send")
    /\ procs[p].snap = {}
    /\ subscribers' = UnsubscribeEach(subscribers, procs[p].failed, procs[p].key)
    /\ hist' = [hist EXCEPT !.disconnected = @ \cup procs[p].failed, !.pruned = @ \cup procs[p].failed]
    /\ procs' = [procs EXCEPT ![p].pc = "notify", ![p].key = NoUser,
                     ![p].snap0 = {}, ![p].failed = {}, ![p].disc0 = {}]
    /\ UNCHANGED <<ROOMS, lock, rooms_tbl, room_members, messages, clock,
                   active_connections, nprocs, budget, peer, inbox>>
    /\ Scheduled(p, FALSE)

-----------------------------------------------------------------------------
(* Specifications *)

RegistrySteps(p) ==
    \/ CreateRoomLocked(p) \/ CreateRoomPersist(p)
    \/ CreateDmLocked(p) \/ CreateDmExisting(p) \/ CreateDmPersist(p) \/ CreateDmRegister(p)
    \/ DeleteRoomLocked(p) \/ DeleteRoomPersist(p)

AccessSteps(p) ==
    \/ AccessRoomExists(p) \/ ensure_room_exists(p) \/ AccessRoomType(p) \/ AccessMembers(p)

SendSteps(p) ==
    \/ AddMessage(p)
    \/ BroadcastSnapshot(p) \/ (\E c \in ProcIds : BroadcastSend(p, c)) \/ BroadcastPrune(p)

SessionSteps(p, frames) ==
    \/ WsAuth(p) \/ WsConnect(p) \/ WsConfirm(p) \/ (\E f \in frames : WsReceive(p, f))
    \/ WsReceiveDisconnect(p) \/ WsErrorReply(p) \/ PeerDrop(p)

ListSteps(p) ==
    \/ ListAuth(p) \/ ListConnect(p) \/ ListReceive(p) \/ ListReceiveDisconnect(p)

NotifySteps(p) ==
    \/ NotifyAll(p) \/ NotifyDm(p) \/ Notify(p) \/ (\E c \in ProcIds : NotifySend(p, c)) \/ NotifyPrune(p)

\* One step of any handler that has begun.
Step ==
    \E p \in ProcIds :
        \/ RegistrySteps(p) \/ AccessSteps(p) \/ GetMessages(p) \/ SendSteps(p) \/ ListRooms(p)
        \/ SessionSteps(p, Frames) \/ ListSteps(p) \/ NotifySteps(p)

\* The whole service under the event loop, any client input.
Init == InitWith(MaxInputs, "loop")

Next ==
    \/ StartCreateRoom(Users, ChannelNames) \/ StartCreateDm(Users, DmTargets)
    \/ StartDeleteRoom(Admins, RoomIds) \/ StartGetMessages(Users, RoomIds)
    \/ StartSendMessage(Users, RoomIds) \/ StartWebSocket(Tokens, RoomIds) \/ StartListWs(Tokens)
    \/ StartListRooms(Users)
    \/ startup_event
    \/ Step

Spec == Init /\ [][Next]_vars

\* Room sessions and request/response sends on one channel, under the event loop.
InitChat == InitWith(ChatInputs, "loop")

NextChat ==
    \/ StartWebSocket({TokenOf(alice)}, {general})
    \/ StartSendMessage({bob}, {general})
    \/ \E p \in ProcIds :
         \/ AccessRoomExists(p) \/ ensure_room_exists(p) \/ AccessRoomType(p)
         \/ SendSteps(p) \/ SessionSteps(p, Frames)

SpecChat == InitChat /\ [][NextChat]_vars

\* create_or_get_dm called in parallel (the service functions take ROOMS_LOCK, so
\* they are written to be called from threads); no list subscriber is connected.
DmSteps(p) ==
    \/ CreateDmLocked(p) \/ CreateDmExisting(p) \/ CreateDmPersist(p) \/ CreateDmRegister(p)
    \/ NotifyDm(p) \/ Notify(p)

InitDm == InitWith(DmInputs, "threads")

NextDm ==
    \/ StartCreateDm(Users, DmTargets)
    \/ \E p \in ProcIds : DmSteps(p)

SpecDm == InitDm /\ [][NextDm]_vars

\* The DM room of alice and bob, its members' operations on it and carol's
\* attempts to get at it, under the event loop.
InitAccess == InitWith(AccessInputs, "loop")

NextAccess ==
    \/ StartCreateDm({alice}, {bob})
    \/ StartCreateRoom({carol}, {general})
    \/ StartDeleteRoom({alice}, {DmRoomId(alice, bob)})
    \/ StartGetMessages({carol}, {DmRoomId(alice, bob)})
    \/ StartSendMessage({carol}, {DmRoomId(alice, bob)})
    \/ StartWebSocket({TokenOf(carol)}, {DmRoomId(alice, bob)})
    \/ \E p \in ProcIds :
         \/ RegistrySteps(p) \/ AccessSteps(p) \/ GetMessages(p) \/ SendSteps(p)
         \/ WsAuth(p) \/ WsConnect(p) \/ WsConfirm(p) \/ WsReceiveDisconnect(p) \/ PeerDrop(p)
         \/ NotifyAll(p) \/ NotifyDm(p) \/ Notify(p)

SpecAccess == InitAccess /\ [][NextAccess]_vars

\* Channel creation and deletion by name, under the event loop.
InitChannel == InitWith(ChannelInputs, "loop")

NextChannel ==
    \/ StartCreateRoom({alice}, ChannelNames)
    \/ StartDeleteRoom({alice}, {general})
    \/ \E p \in ProcIds :
         \/ CreateRoomLocked(p) \/ CreateRoomPersist(p) \/ DeleteRoomLocked(p) \/ DeleteRoomPersist(p)
         \/ NotifyAll(p) \/ Notify(p)

SpecChannel == InitChannel /\ [][NextChannel]_vars

\* Both push registries: room sessions that send to their room, list subscriptions
\* with a channel creation that notifies them, under the event loop.
InitPush == InitWith(PushInputs, "loop")

NextPush ==
    \/ StartWebSocket({TokenOf(alice)}, {general})
    \/ StartListWs({TokenOf(alice)})
    \/ StartCreateRoom({bob}, {general})
    \/ \E p \in ProcIds :
         \/ CreateRoomLocked(p) \/ CreateRoomPersist(p)
         \/ AccessRoomExists(p) \/ ensure_room_exists(p) \/ AccessRoomType(p)
         \/ SendSteps(p)
         \/ WsAuth(p) \/ WsConnect(p) \/ WsConfirm(p) \/ (\E f \in MessageFrames : WsReceive(p, f))
         \/ WsReceiveDisconnect(p) \/ PeerDrop(p)
         \/ ListSteps(p)
         \/ NotifyAll(p) \/ Notify(p) \/ (\E c \in ProcIds : NotifySend(p, c)) \/ NotifyPrune(p)

SpecPush == InitPush /\ [][NextPush]_vars

\* Push upgrades on both paths with good, missing and invalid tokens, under the
\* event loop.
AuthTokens == {TokenOf(alice), NoToken, TokenOf(<<"m">>)}

InitAuth == InitWith(AuthInputs, "loop")

NextAuth ==
    \/ StartWebSocket(AuthTokens, {general})
    \/ StartListWs(AuthTokens)
    \/ \E p \in ProcIds :
         \/ WsAuth(p) \/ AccessRoomExists(p) \/ ensure_room_exists(p) \/ AccessRoomType(p)
         \/ WsConnect(p) \/ WsConfirm(p) \/ WsReceiveDisconnect(p) \/ PeerDrop(p)
         \/ ListSteps(p)

SpecAuth == InitAuth /\ [][NextAuth]_vars

\* Creates of one channel id called in parallel, with a list subscriber to notify.
InitCreate == InitWith(CreateInputs, "threads")

NextCreate ==
    \/ StartCreateRoom(Users, {general})
    \/ StartListWs({TokenOf(alice)})
    \/ \E p \in ProcIds :
         \/ CreateRoomLocked(p) \/ CreateRoomPersist(p)
         \/ ListAuth(p) \/ ListConnect(p)
         \/ NotifyAll(p) \/ Notify(p) \/ (\E c \in ProcIds : NotifySend(p, c)) \/ NotifyPrune(p)

SpecCreate == InitCreate /\ [][NextCreate]_vars

\* Sends to an id that is not registered: a fresh id, and the id of a room that was
\* deleted while a session was connected to it, under the event loop.
InitImplicit == InitWith(ImplicitInputs, "loop")

NextImplicit ==
    \/ StartWebSocket({TokenOf(alice)}, {general})
    \/ StartDeleteRoom({alice}, {general})
    \/ StartSendMessage({bob}, {general})
    \/ \E p \in ProcIds :
         \/ DeleteRoomLocked(p) \/ DeleteRoomPersist(p) \/ NotifyAll(p) \/ Notify(p)
         \/ AccessRoomExists(p) \/ ensure_room_exists(p) \/ AccessRoomType(p)
         \/ SendSteps(p)
         \/ WsAuth(p) \/ WsConnect(p) \/ WsConfirm(p) \/ WsReceiveDisconnect(p) \/ PeerDrop(p)

SpecImplicit == InitImplicit /\ [][NextImplicit]_vars

\* Messages sent on both paths, by alice's session and by bob's requests, with
\* and without an author named by the client, under the event loop.
InitAuthor == InitWith(AuthorInputs, "loop")

NextAuthor ==
    \/ StartWebSocket({TokenOf(alice)}, {general})
    \/ StartSendMessageAs({bob}, {general}, {NoUser} \cup ClaimedNames)
    \/ \E p \in ProcIds :
         \/ AccessRoomExists(p) \/ ensure_room_exists(p) \/ AccessRoomType(p)
         \/ SendSteps(p)
         \/ WsAuth(p) \/ WsConnect(p) \/ WsConfirm(p)
         \/ (\E f \in MessageFrames \cup SpoofedFrames : WsReceive(p, f))

SpecAuthor == InitAuthor /\ [][NextAuthor]_vars

\* carol's sends to the id of the DM of alice and bob on both paths, a request and
\* a session that stays open, while the DM is created and deleted, under the
\* event loop.
InitPaths == InitWith(PathsInputs, "loop")

NextPaths ==
    \/ StartWebSocket({TokenOf(carol)}, {DmRoomId(alice, bob)})
    \/ StartSendMessage({carol}, {DmRoomId(alice, bob)})
    \/ StartCreateDm({alice}, {bob})
    \/ StartDeleteRoom({alice}, {DmRoomId(alice, bob)})
    \/ \E p \in ProcIds :
         \/ CreateDmLocked(p) \/ CreateDmExisting(p) \/ CreateDmPersist(p) \/ CreateDmRegister(p)
         \/ DeleteRoomLocked(p) \/ DeleteRoomPersist(p)
         \/ NotifyAll(p) \/ NotifyDm(p) \/ Notify(p)
         \/ AccessSteps(p) \/ SendSteps(p)
         \/ WsAuth(p) \/ WsConnect(p) \/ WsConfirm(p) \/ (\E f \in MessageFrames : WsReceive(p, f))

SpecPaths == InitPaths /\ [][NextPaths]_vars

\* Restarts of the process between and in the middle of bob's sends, to an id
\* without a room record and to his DM with alice, and creates and deletes of
\* that DM, under the event loop.
InitLoad == InitWith(LoadInputs, "loop")

NextLoad ==
    \/ StartSendMessage({bob}, RoomIds)
    \/ StartCreateDm({alice}, {bob})
    \/ StartDeleteRoom({alice}, {DmRoomId(alice, bob)})
    \/ startup_event
    \/ \E p \in ProcIds :
         \/ CreateDmLocked(p) \/ CreateDmExisting(p) \/ CreateDmPersist(p) \/ CreateDmRegister(p)
         \/ DeleteRoomLocked(p) \/ DeleteRoomPersist(p)
         \/ NotifyAll(p) \/ NotifyDm(p) \/ Notify(p)
         \/ AccessRoomExists(p) \/ ensure_room_exists(p) \/ AccessRoomType(p) \/ AccessMembers(p)
         \/ AddMessage(p) \/ BroadcastSnapshot(p)

SpecLoad == InitLoad /\ [][NextLoad]_vars

\* Channel creates over well formed and malformed names, under the event loop.
InitNames == InitWith(NameInputs, "loop")

NextNames ==
    \/ StartCreateRoom({alice}, NameCases)
    \/ \E p \in ProcIds :
         \/ CreateRoomLocked(p) \/ CreateRoomPersist(p) \/ NotifyAll(p) \/ Notify(p)

SpecNames == InitNames /\ [][NextNames]_vars

\* Room sessions of alice and bob that open on one channel while other sessions
\* of the channel send to it and clients drop, under the event loop.
InitOpen == InitWith(OpenInputs, "loop")

NextOpen ==
    \/ StartWebSocket({TokenOf(alice), TokenOf(bob)}, {general})
    \/ \E p \in ProcIds :
         \/ AccessRoomExists(p) \/ ensure_room_exists(p) \/ AccessRoomType(p)
         \/ WsAuth(p) \/ WsConnect(p) \/ WsConfirm(p) \/ (\E f \in MessageFrames : WsReceive(p, f))
         \/ WsReceiveDisconnect(p) \/ PeerDrop(p)
         \/ SendSteps(p)

SpecOpen == InitOpen /\ [][NextOpen]_vars

\* Requests that send to a channel while sessions of alice on the channel open,
\* end and lose their clients at the sends of the broadcast, under the event loop.
InitBroadcast == InitWith(BroadcastInputs, "loop")

NextBroadcast ==
    \/ StartWebSocket({TokenOf(alice)}, {general})
    \/ StartSendMessage({bob}, {general})
    \/ \E p \in ProcIds :
         \/ AccessRoomExists(p) \/ ensure_room_exists(p) \/ AccessRoomType(p)
         \/ WsAuth(p) \/ WsConnect(p) \/ WsConfirm(p) \/ WsReceiveDisconnect(p) \/ PeerDrop(p)
         \/ SendSteps(p)

SpecBroadcast == InitBroadcast /\ [][NextBroadcast]_vars

\* Room sessions of alice and bob on one channel that take tagged events of the
\* type message and of another type, under the event loop.
InitTagged == InitWith(TaggedInputs, "loop")

NextTagged ==
    \/ StartWebSocket({TokenOf(alice), TokenOf(bob)}, {general})
    \/ \E p \in ProcIds :
         \/ AccessRoomExists(p) \/ ensure_room_exists(p) \/ AccessRoomType(p)
         \/ WsAuth(p) \/ WsConnect(p) \/ WsConfirm(p) \/ (\E f \in TaggedFrames : WsReceive(p, f))
         \/ AddMessage(p) \/ BroadcastSnapshot(p) \/ (\E c \in ProcIds : BroadcastSend(p, c))
         \/ BroadcastPrune(p)

SpecTagged == InitTagged /\ [][NextTagged]_vars

\* Creates and deletes of one channel with restarts of the process between and
\* in the middle of them, under the event loop.
InitCrash == InitWith(CrashInputs, "loop")

NextCrash ==
    \/ StartCreateRoom({alice}, {general})
    \/ StartDeleteRoom({alice}, {general})
    \/ startup_event
    \/ \E p \in ProcIds :
         \/ CreateRoomLocked(p) \/ CreateRoomPersist(p) \/ DeleteRoomLocked(p) \/ DeleteRoomPersist(p)
         \/ NotifyAll(p) \/ Notify(p)

SpecCrash == InitCrash /\ [][NextCrash]_vars

\* The DM of alice and bob with bob's sends to it, its delete, and carol's fetches
\* of its messages, under the event loop.
InitHistory == InitWith(HistoryInputs, "loop")

NextHistory ==
    \/ StartCreateDm({alice}, {bob})
    \/ StartSendMessage({bob}, {DmRoomId(alice, bob)})
    \/ StartDeleteRoom({alice}, {DmRoomId(alice, bob)})
    \/ StartGetMessages({carol}, {DmRoomId(alice, bob)})
    \/ \E p \in ProcIds :
         \/ CreateDmLocked(p) \/ CreateDmExisting(p) \/ CreateDmPersist(p) \/ CreateDmRegister(p)
         \/ DeleteRoomLocked(p) \/ DeleteRoomPersist(p)
         \/ NotifyAll(p) \/ NotifyDm(p) \/ Notify(p)
         \/ AccessSteps(p) \/ GetMessages(p)
         \/ AddMessage(p) \/ BroadcastSnapshot(p)

SpecHistory == InitHistory /\ [][NextHistory]_vars

\* alice's sessions on two channels that send to their rooms, and list
\* subscriptions of alice and carol while alice creates her DM with bob, under the
\* event loop.
InitIsolation == InitWith(IsolationInputs, "loop")

NextIsolation ==
    \/ StartWebSocket({TokenOf(alice)}, TwoRooms)
    \/ StartListWs({TokenOf(alice), TokenOf(carol)})
    \/ StartCreateDm({alice}, {bob})
    \/ \E p \in ProcIds :
         \/ AccessRoomExists(p) \/ ensure_room_exists(p) \/ AccessRoomType(p)
         \/ WsAuth(p) \/ WsConnect(p) \/ WsConfirm(p) \/ (\E f \in MessageFrames : WsReceive(p, f))
         \/ AddMessage(p) \/ BroadcastSnapshot(p) \/ (\E c \in ProcIds : BroadcastSend(p, c))
         \/ BroadcastPrune(p)
         \/ ListAuth(p) \/ ListConnect(p)
         \/ CreateDmLocked(p) \/ CreateDmExisting(p) \/ CreateDmPersist(p) \/ CreateDmRegister(p)
         \/ NotifyDm(p) \/ Notify(p) \/ (\E c \in ProcIds : NotifySend(p, c)) \/ NotifyPrune(p)

SpecIsolation == InitIsolation /\ [][NextIsolation]_vars

\* Room list fetches of a DM member and of a non-member while channels and the DM
\* are created and deleted, under the event loop.
InitList == InitWith(ListInputs, "loop")

NextList ==
    \/ StartCreateDm({alice}, {bob})
    \/ StartCreateRoom({carol}, {general})
    \/ StartDeleteRoom({alice}, RoomIds)
    \/ StartListRooms({alice, carol})
    \/ \E p \in ProcIds :
         \/ RegistrySteps(p) \/ ListRooms(p)
         \/ NotifyAll(p) \/ NotifyDm(p) \/ Notify(p)

SpecList == InitList /\ [][NextList]_vars

\* DM creates by alice (with bob, with herself, with an unknown user) while list
\* subscriptions of alice, bob and carol come and go, under the event loop.
InitNotify == InitWith(NotifyInputs, "loop")

NextNotify ==
    \/ StartCreateDm({alice}, {bob, alice, <<"m">>})
    \/ StartListWs({TokenOf(alice), TokenOf(bob), TokenOf(carol)})
    \/ \E p \in ProcIds :
         \/ CreateDmLocked(p) \/ CreateDmExisting(p) \/ CreateDmPersist(p) \/ CreateDmRegister(p)
         \/ ListAuth(p) \/ ListConnect(p) \/ ListReceiveDisconnect(p) \/ PeerDrop(p)
         \/ NotifyDm(p) \/ Notify(p) \/ (\E c \in ProcIds : NotifySend(p, c)) \/ NotifyPrune(p)

SpecNotify == InitNotify /\ [][NextNotify]_vars

\* A channel creation that notifies everybody while list subscriptions of alice
\* and bob come and go and their clients drop, under the event loop.
InitFanout == InitWith(FanoutInputs, "loop")

NextFanout ==
    \/ StartCreateRoom({carol}, {general})
    \/ StartListWs({TokenOf(alice), TokenOf(bob)})
    \/ \E p \in ProcIds :
         \/ CreateRoomLocked(p) \/ CreateRoomPersist(p)
         \/ ListAuth(p) \/ ListConnect(p) \/ ListReceiveDisconnect(p) \/ PeerDrop(p)
         \/ NotifyAll(p) \/ Notify(p) \/ (\E c \in ProcIds : NotifySend(p, c)) \/ NotifyPrune(p)

SpecFanout == InitFanout /\ [][NextFanout]_vars

-----------------------------------------------------------------------------
(* Room access *)

\* The requests that go through the access check of a room.
AccessOps == {"fetch", "send", "ws"}

\* C1: a user who is neither A nor B is refused (Forbidden on fetch and send, closed
\* without being registered on subscribe) on the room id that create_or_get_dm has
\* returned for the pair (A, B), whatever was done to the registry before.
C1_NonMemberRefused ==
    \A q \in Started : \A d \in procs[q].dms0 :
        (/\ procs[q].op \in AccessOps
         /\ procs[q].room = d.room
         /\ procs[q].user # NoUser
         /\ procs[q].user \notin d.pair)
        => /\ ~procs[q].granted
           /\ (procs[q].room \in DOMAIN active_connections => q \notin active_connections[procs[q].room])

-----------------------------------------------------------------------------
(* DM create-or-get *)

\* The create_or_get_dm call of handler p has returned.
DmReturned(p) == p \in Started /\ procs[p].op = "dm" /\ procs[p].ret = "200"

\* dm-<min(A,B)>-<max(A,B)>
DmIdOf(a, b) ==
    IF StrLess(a, b) THEN <<"d", "m", "-">> \o a \o <<"-">> \o b
    ELSE <<"d", "m", "-">> \o b \o <<"-">> \o a

\* Handlers p and q have called create_or_get_dm for (A, B) and for (B, A).
DmBothWays(p, q) ==
    /\ DmReturned(p) /\ DmReturned(q)
    /\ procs[p].user = procs[q].other /\ procs[p].other = procs[q].user

\* C2: when create_or_get_dm for (A, B) and for (B, A), A # B, have both returned,
\* however their steps were interleaved, both returned dm-<min>-<max>, and that id is
\* the one room record and the one registry entry of the pair, of type dm, with
\* membership exactly {A, B}.
C2_DmConverges ==
    \A p, q \in Started :
        DmBothWays(p, q) =>
            LET pair == {procs[p].user, procs[p].other}
                id == DmIdOf(procs[p].user, procs[p].other)
            IN /\ procs[p].out.room_id = id /\ procs[q].out.room_id = id
               /\ {r \in DOMAIN rooms_tbl : get_room_members(r) = pair} = {id}
               /\ {r \in DOMAIN ROOMS : r = id \/ get_room_members(r) = pair} = {id}
               /\ rooms_tbl[id].room_type = "dm" /\ ~rooms_tbl[id].deleted
               /\ ROOMS[id] = "dm"
               /\ get_room_members(id) = pair
               /\ procs[p].out.members = pair /\ procs[q].out.members = pair

\* Both calls found the id unregistered and both wrote the room (two store
\* transactions), and both have returned.
C2_Witness ==
    \E p, q \in Started : p # q /\ DmBothWays(p, q) /\ clock = 3

-----------------------------------------------------------------------------
(* Channel names *)

\* The name begins with dm-
HasDmPrefix(name) == Len(name) >= 3 /\ SubSeq(name, 1, 3) = <<"d", "m", "-">>

\* C3: a channel create whose name begins with the reserved prefix dm- is rejected
\* as an invalid request and leaves the registry and the rooms table as they were,
\* so that no channel of an id dm-<a>-<b> is ever registered.
C3_DmPrefixRejected ==
    /\ \A p \in Started :
           (procs[p].op = "create" /\ HasDmPrefix(procs[p].room) /\ procs[p].pc # "create_room")
           => procs[p].ret = "400 invalid name"
    /\ \A r \in DOMAIN ROOMS : HasDmPrefix(r) => ROOMS[r] # "channel"
    /\ \A r \in DOMAIN rooms_tbl : HasDmPrefix(r) => rooms_tbl[r].room_type # "channel"

-----------------------------------------------------------------------------
(* Message events *)

\* The message events written to connection c, in the order of their arrival.
MessageEventsOf(c) == SelectSeq(inbox[c], LAMBDA ev : ev.type = "message")

\* The stored row that an event's data describes: same room, author, body, timestamp.
RowOf(room_id, data) ==
    {k \in DOMAIN messages :
        /\ messages[k].room_id = room_id
        /\ messages[k].username = data.username
        /\ messages[k].message = data.message
        /\ messages[k].timestamp = data.timestamp}

\* C4: every message event that a connection receives carries the id that the store
\* assigned to the message on its append, with the author, body and timestamp; with
\* one message sent the store holds id 1 and the event's data has id 1.
C4_EventCarriesId ==
    \A c \in Started :
        \A i \in DOMAIN MessageEventsOf(c) :
            LET data == MessageEventsOf(c)[i].data
            IN /\ RowOf(procs[c].room, data) # {}
               /\ "id" \in DOMAIN data
               /\ \E k \in RowOf(procs[c].room, data) : data.id = messages[k].id

\* C6: on both send paths, a message event is delivered only when its message is
\* committed: at every moment the room's stored messages (what a fetch returns)
\* contain the message of every event delivered so far.
C6_DeliveredIsStored ==
    \A c \in Started :
        \A i \in DOMAIN MessageEventsOf(c) :
            LET data == MessageEventsOf(c)[i].data
                fetched == get_messages(procs[c].room, 0)
            IN \E k \in DOMAIN fetched :
                   /\ fetched[k].username = data.username
                   /\ fetched[k].message = data.message
                   /\ fetched[k].timestamp = data.timestamp

\* A connection has received an event of a message sent by request (bob) and an
\* event of a message sent on a session (alice).
C6_Witness ==
    \E c \in Started :
        /\ \E i \in DOMAIN MessageEventsOf(c) : MessageEventsOf(c)[i].data.username = bob
        /\ \E i \in DOMAIN MessageEventsOf(c) : MessageEventsOf(c)[i].data.username = alice

\* The store id of the message that an event's data describes.
IdOf(room_id, data) == messages[CHOOSE k \in RowOf(room_id, data) : TRUE].id

\* C5: for two messages of a room with store ids N < M, a connection registered in
\* the room before both appends that receives both events receives the event of N
\* before the event of M, however the two broadcasts interleave at their sends.
C5_BroadcastOrder ==
    \A c \in Started :
        \A i, j \in DOMAIN MessageEventsOf(c) :
            LET n == IdOf(procs[c].room, MessageEventsOf(c)[i].data)
                m == IdOf(procs[c].room, MessageEventsOf(c)[j].data)
            IN (i < j /\ procs[c].regat < n /\ procs[c].regat < m) => n < m

-----------------------------------------------------------------------------
(* Connection broadcaster and list subscription registry *)

\* Handler p has made the last send of its broadcast_to_room call.
BroadcastEnds(p) ==
    /\ p \in Started /\ procs[p].pc = "broadcast_send" /\ procs[p].snap = {}
    /\ procs'[p].pc # "broadcast_send"

\* Connection c has received event ev.
Received(c, ev) == \E i \in DOMAIN inbox[c] : inbox[c][i] = ev

\* C7: in broadcast_to_room, whichever connections of the room fail, every other
\* connection of the copy has received the event, the caller goes on as after any
\* broadcast (nothing is raised to it), and the call removes from the room's set the
\* failing connections and no other.
C7_FailuresPruned ==
    [][\A p \in ProcIds :
         BroadcastEnds(p) =>
            /\ \A c \in procs[p].snap0 \ procs[p].failed : Received(c, procs[p].ev)
            /\ procs[p].failed \subseteq procs[p].snap0
            /\ procs'[p].pc = IF procs[p].op = "send" THEN "done" ELSE "ws_receive"
            /\ procs'[p].ret # "error"
            /\ SetOf(active_connections', procs[p].room)
                 = SetOf(active_connections, procs[p].room) \ procs[p].failed
            /\ \A r \in DOMAIN active_connections \cup DOMAIN active_connections' :
                 r # procs[p].room => SetOf(active_connections', r) = SetOf(active_connections, r)
      ]_vars

\* A broadcast is over in which a send failed and another connection of the room
\* received the event.
C7_Witness ==
    \E p \in Started :
        /\ procs[p].pc = "broadcast_send" /\ procs[p].snap = {}
        /\ procs[p].failed # {}
        /\ \E c \in procs[p].snap0 \ procs[p].failed : Received(c, procs[p].ev)

\* C8: once disconnect(connection, key) has returned, in the broadcaster and in the
\* list subscription registry, the connection is in no set of the manager's map and a
\* broadcast or notify that starts afterwards makes no send attempt to it; a key
\* whose last connection went is not in the map, so no key maps to an empty set.
C8_DisconnectedGetsNothing ==
    /\ hist.late_attempts = {}
    /\ \A k \in DOMAIN active_connections :
           active_connections[k] # {} /\ active_connections[k] \cap hist.disconnected = {}
    /\ \A k \in DOMAIN subscribers :
           subscribers[k] # {} /\ subscribers[k] \cap hist.disconnected = {}

\* A broadcast or notify has taken its copy of a set after a connection of the same
\* key was disconnected, and the copy has connections to send to.
C8_Witness ==
    \E p \in Started :
        /\ procs[p].pc \in {"broadcast_send", "notify_send"}
        /\ procs[p].snap0 # {}
        /\ \E c \in procs[p].disc0 :
              /\ procs[c].op = procs[CHOOSE x \in procs[p].snap0 : TRUE].op
              /\ procs[c].room = procs[CHOOSE x \in procs[p].snap0 : TRUE].room
              /\ procs[c].user = procs[CHOOSE x \in procs[p].snap0 : TRUE].user

-----------------------------------------------------------------------------
(* Room sessions *)

\* The last frame that session p took cannot be decoded as a tagged event: it is
\* no JSON, or JSON that is no object.
Malformed(p) == procs[p].op = "ws" /\ procs[p].frame.json \in {"invalid", "list"}

\* C9: an inbound frame that cannot be decoded as a tagged event (no JSON, or JSON
\* that is no object) gets an error event on its connection and leaves the session
\* open (waiting for the next frame) and registered with the broadcaster.
C9_MalformedKeepsOpen ==
    \A p \in Started :
        (Malformed(p) /\ peer[p] = "up") =>
            /\ procs[p].pc \in {"ws_error_reply", "ws_receive"}
            /\ p \in SetOf(active_connections, procs[p].room)
            /\ procs[p].pc = "ws_receive" => Received(p, ErrorEvent)

\* Session p ends in this step.
SessionEnds(p) == p \in Started /\ procs[p].op = "ws" /\ procs[p].pc # "done" /\ procs'[p].pc = "done"

\* C10: a room session whose handler has ended, by whichever path, is in no
\* connection set of the broadcaster; and when the session that ends was already
\* pruned by a broadcast, its unregister leaves the broadcaster as it was.
C10_EndedIsUnregistered ==
    /\ [](\A p \in Started :
            (procs[p].op = "ws" /\ procs[p].pc = "done") =>
                \A r \in DOMAIN active_connections : p \notin active_connections[r])
    /\ [][\A p \in ProcIds :
            (SessionEnds(p) /\ p \notin SetOf(active_connections, procs[p].room))
            => active_connections' = active_connections]_vars

\* A session that a broadcast had pruned has ended with its own unregister.
C10_Witness ==
    \E p \in Started :
        /\ procs[p].op = "ws" /\ procs[p].pc = "done" /\ procs[p].ret = "disconnected"
        /\ p \in hist.pruned

-----------------------------------------------------------------------------
(* Push upgrades *)

\* The token of upgrade p is missing, or names no user.
BadToken(p) ==
    /\ procs[p].op \in {"ws", "listws"}
    /\ procs[p].token = NoToken \/ BeforeColon(procs[p].token) \notin Users

\* The close that answers a failed authentication.
AuthClosed == {"closed 1008 authentication required", "closed 1008 invalid token"}

\* C11: a push upgrade on the room path or the room-list path with a missing or
\* invalid token is closed with the authentication close code without being
\* accepted: it is never registered with the broadcaster or the list registry, is
\* sent nothing, never passes the access check, and no step of it changes the room
\* registry, the store, the broadcaster or the list registry.
C11_BadTokenClosed ==
    /\ [](\A p \in Started :
            BadToken(p) =>
                /\ procs[p].pc \in {"ws_auth", "list_auth", "done"}
                /\ procs[p].pc = "done" => procs[p].ret \in AuthClosed
                /\ ~procs[p].granted
                /\ inbox[p] = <<>>
                /\ \A r \in DOMAIN active_connections : p \notin active_connections[r]
                /\ \A u \in DOMAIN subscribers : p \notin subscribers[u])
    /\ [][\A p \in ProcIds :
            (p \in Started /\ BadToken(p) /\ procs'[p] # procs[p])
            => UNCHANGED <<ROOMS, rooms_tbl, room_members, messages, active_connections,
                           subscribers, inbox>>]_vars

\* An upgrade on each path has been closed for its token: a room session for an
\* invalid token, a list subscription for a missing one.
C11_Witness ==
    /\ \E p \in Started : procs[p].op = "ws" /\ procs[p].ret = "closed 1008 invalid token"
    /\ \E p \in Started : procs[p].op = "listws" /\ procs[p].ret = "closed 1008 authentication required"

-----------------------------------------------------------------------------
(* Channel create *)

\* The create calls for room id r that have left create_room's locked section.
CreatesPast(r) ==
    {p \in Started : procs[p].op = "create" /\ procs[p].room = r /\ procs[p].pc # "create_room"}

\* C12: a create of an id that is registered fails with the already-exists error,
\* in a step that changes neither the registry nor the store nor any connection's
\* events, and it never goes on to notify; of the creates of one unregistered id
\* that run in parallel exactly one succeeds and every other gets the error.
C12_OneCreateWins ==
    /\ [](\A p \in Started :
            procs[p].ret = "400 already exists" => procs[p].pc = "done" /\ procs[p].ev = NoEvent)
    /\ [](CreatesPast(general) # {} =>
            Cardinality({p \in CreatesPast(general) : procs[p].ret # "400 already exists"}) = 1)
    /\ [][\A p \in ProcIds :
            (/\ p \in Started /\ procs[p].pc = "create_room" /\ procs'[p] # procs[p]
             /\ procs[p].room \in DOMAIN ROOMS)
            => /\ procs'[p].ret = "400 already exists"
               /\ UNCHANGED <<ROOMS, rooms_tbl, room_members, messages, inbox>>]_vars

\* Three creates of the same id have run: one has succeeded, two got the error.
C12_Witness ==
    /\ Cardinality({p \in Started : procs[p].op = "create" /\ procs[p].ret = "200"}) = 1
    /\ Cardinality({p \in Started : procs[p].ret = "400 already exists"}) = 2

\* C13: when a channel create has succeeded, whatever happened to the id before
\* (never seen, or created and soft-deleted), the rooms table holds a record of the
\* id that is not deleted and has the type created, which a load would register.
C13_CreatePersists ==
    \A p \in Started :
        (procs[p].op = "create" /\ procs[p].pc = "notify_all") =>
            /\ procs[p].room \in DOMAIN rooms_tbl
            /\ ~rooms_tbl[procs[p].room].deleted
            /\ rooms_tbl[procs[p].room].room_type = "channel"

-----------------------------------------------------------------------------
(* Registry and rooms table *)

\* A registry operation is between its section under the lock and its store write
\* (or the other way round).
RegistryBusy ==
    \E p \in Started :
        procs[p].pc \in {"create_persist", "dm_existing", "dm_persist", "dm_register", "delete_persist"}

\* C14: whenever no registry operation is in progress, the registered ids are the
\* ids of the rooms records that are not deleted, each with the record's type.
C14_RegistryMirrorsStore ==
    ~RegistryBusy =>
        /\ DOMAIN ROOMS = {r \in DOMAIN rooms_tbl : ~rooms_tbl[r].deleted}
        /\ \A r \in DOMAIN ROOMS : r \in DOMAIN rooms_tbl /\ ROOMS[r] = rooms_tbl[r].room_type

\* C15: every type under which the registry has held a room id over the run is the
\* same type.
C15_TypeNeverChanges ==
    \A a, b \in hist.types : a.room = b.room => a.type = b.type

\* C17: a delete of an id that is not registered ends with the not-found error; a
\* delete of a registered id leaves the id unregistered and its rooms record marked
\* deleted with the actor.
C17_DeleteMarksRecord ==
    \A p \in Started :
        procs[p].op = "delete" =>
            /\ procs[p].ret = "404 room not found" => procs[p].pc = "done"
            /\ procs[p].pc = "notify_all" =>
                  /\ procs[p].room \notin DOMAIN ROOMS
                  /\ procs[p].room \in DOMAIN rooms_tbl
                  /\ rooms_tbl[procs[p].room].deleted
                  /\ rooms_tbl[procs[p].room].deleted_by = procs[p].user

-----------------------------------------------------------------------------
(* Implicit channel creation: rooms/routes.py send_room_message *)

\* Send handlers whose access check found the id unregistered.
ImplicitSends == {p \in Started : procs[p].op = "send" /\ procs[p].implicit}

\* The message of send handler p is a row of the store under the handler's room.
Stored(p) ==
    \E i \in DOMAIN messages :
        /\ messages[i].room_id = procs[p].room
        /\ messages[i].username = procs[p].user
        /\ messages[i].message = procs[p].frame.message

\* C16: a send to an id that is not registered and is not a DM id is let through by
\* the access check (no 403, no 404); from the access check on the id is registered
\* with type channel, once add_message has run the message is a row of the store
\* under that id, and when broadcast_to_room has made its last send every
\* connection of the room's set that did not fail has received the message event.
C16_ImplicitChannelSend ==
    /\ [](\A p \in ImplicitSends :
            /\ procs[p].ret \notin {"403 not a member", "404 room not found"}
            /\ procs[p].pc \in {"access_type", "add_message"} =>
                  procs[p].room \in DOMAIN ROOMS /\ ROOMS[procs[p].room] = "channel"
            /\ procs[p].pc # "access_type" => procs[p].granted
            /\ procs[p].pc \in {"broadcast", "broadcast_send", "done"} => Stored(p))
    /\ [][\A p \in ProcIds :
            (BroadcastEnds(p) /\ p \in ImplicitSends) =>
                \A c \in procs[p].snap0 \ procs[p].failed : Received(c, procs[p].ev)
       ]_vars

\* A send to the id of a deleted room, to which a session is still connected, has
\* made its last send: the id is registered again as a channel, the message is
\* stored and the session has received it.
C16_Witness ==
    \E p \in ImplicitSends, c \in Started :
        /\ procs[p].pc = "broadcast_send" /\ procs[p].snap = {}
        /\ procs[p].room \in DOMAIN ROOMS /\ ROOMS[procs[p].room] = "channel"
        /\ Stored(p)
        /\ procs[c].op = "ws"
        /\ c \in procs[p].snap0 \ procs[p].failed
        /\ Received(c, procs[p].ev)

-----------------------------------------------------------------------------
(* Room list: rooms/services.py get_user_rooms *)

\* The room records that are not deleted, of one type.
LiveRecords(room_type) ==
    {r \in DOMAIN rooms_tbl : ~rooms_tbl[r].deleted /\ rooms_tbl[r].room_type = room_type}

\* list is what the room list of user u has to be in the present state of the store.
ListIsRight(u, list) ==
    /\ \A r \in LiveRecords("channel") :
          \E e \in list : e.room_id = r /\ e.room_type = "channel"
    /\ \A r \in LiveRecords("dm") :
          <<r, u>> \in room_members => \E e \in list : e.room_id = r /\ e.room_type = "dm"
    /\ \A e \in list :
          /\ e.room_id \in DOMAIN rooms_tbl
          /\ ~rooms_tbl[e.room_id].deleted
          /\ e.room_type = rooms_tbl[e.room_id].room_type
          /\ e.room_type = "dm" =>
                /\ <<e.room_id, u>> \in room_members
                /\ e.display_name # u
                /\ get_room_members(e.room_id) = {u, e.display_name}
          /\ e.room_type = "channel" => e.members = {}

\* C18: in every state and for every user U, the room list of U holds every room
\* record that is a non-deleted channel and every non-deleted DM record of which U
\* is a member, holds no deleted record and no DM of which U is not a member, a DM
\* entry's display name is the other member and a channel entry's members are
\* empty; and the list that the list handler returns is that list.
C18_RoomListContents ==
    /\ [](\A u \in Users : ListIsRight(u, get_user_rooms(u)))
    /\ [][\A p \in ProcIds :
            (p \in Started /\ procs[p].pc = "list_rooms" /\ procs'[p].pc = "done") =>
                ListIsRight(procs[p].user, procs'[p].out)
       ]_vars

\* carol's list fetch has returned while the DM of alice and bob and a channel
\* exist: her list holds the channel only, and alice's list holds both, the DM
\* under bob's name.
C18_Witness ==
    \E q \in Started :
        /\ procs[q].op = "list" /\ procs[q].pc = "done" /\ procs[q].user = carol
        /\ procs[q].out = get_user_rooms(carol)
        /\ procs[q].out # {}
        /\ \A e \in procs[q].out : e.room_id = general
        /\ \E e \in get_user_rooms(alice) :
               e.room_id = DmRoomId(alice, bob) /\ e.room_type = "dm" /\ e.display_name = bob
        /\ \E e \in get_user_rooms(alice) : e.room_id = general /\ e.room_type = "channel"

\* C19: when a channel create of id r has succeeded, whatever was done to r before,
\* and r has not been deleted since, the room list of every user holds r as a channel.
C19_ChannelAppearsForEveryone ==
    \A p \in Started :
        (procs[p].op = "create" /\ procs[p].pc \in {"notify_all", "notify"}
            /\ procs[p].room \in DOMAIN ROOMS) =>
            \A u \in Users :
                \E e \in get_user_rooms(u) : e.room_id = procs[p].room /\ e.room_type = "channel"

-----------------------------------------------------------------------------
(* DM notification: rooms/routes.py create_dm *)

\* List connection c is live: its client is there, its handler has not ended and
\* it is in the set of its user.
LiveSubscription(c) ==
    /\ procs[c].op = "listws"
    /\ SendSucceeds(c)
    /\ c \in SetOf(subscribers, procs[c].user)

\* create_dm handler p has returned from its last notify call.
DmNotifyEnds(p) ==
    p \in Started /\ procs[p].op = "dm" /\ procs[p].pc = "notify" /\ procs[p].keys = <<>>

\* The DM creates that were rejected: a self-DM or an unknown target user.
RejectedDms ==
    {p \in Started : procs[p].op = "dm"
                        /\ procs[p].ret \in {"400 cannot dm yourself", "404 user not found"}}

\* C20: a successful DM create-or-get of A with B has sent the update event, when
\* its notify calls have returned, to every list connection of A and of B that was
\* subscribed when it began to notify and is live; it sends to connections of A and
\* B only, so that a connection of any other user receives nothing; a rejected DM
\* create ends at once, sends to nobody, and its step changes no connection's inbox.
C20_DmNotifiesMembersOnly ==
    /\ [](\A p \in Started :
            DmNotifyEnds(p) =>
                \A c \in procs[p].subs0 : LiveSubscription(c) => c \in procs[p].sent)
    /\ [](\A p \in Started :
            procs[p].op = "dm" =>
                \A c \in procs[p].sent :
                    /\ procs[c].op = "listws"
                    /\ procs[c].user \in {procs[p].user, procs[p].other}
                    /\ Received(c, UpdateEvent))
    /\ [](\A c \in Started :
            (procs[c].op = "listws" /\ procs[c].user \notin {alice, bob}) => inbox[c] = <<>>)
    /\ [](\A p \in RejectedDms :
            procs[p].pc = "done" /\ procs[p].sent = {} /\ procs[p].ev = NoEvent)
    /\ [][\A p \in ProcIds :
            (p \in Started /\ p \notin RejectedDms /\ (p \in RejectedDms)') => UNCHANGED inbox
       ]_vars

\* A DM create of alice with bob has returned from its notify calls while bob and
\* carol are subscribed: bob's connection has received the update event, carol's
\* has received nothing.
C20_Witness ==
    \E p, b, c \in Started :
        /\ DmNotifyEnds(p)
        /\ procs[b].user = bob /\ LiveSubscription(b)
        /\ b \in procs[p].subs0 /\ b \in procs[p].sent /\ Received(b, UpdateEvent)
        /\ procs[c].user = carol /\ LiveSubscription(c) /\ inbox[c] = <<>>

-----------------------------------------------------------------------------
(* Notification of everybody: subscriptions.py notify_all *)

\* Handler p has returned from the last notify call of its notify_all call.
NotifyAllEnds(p) ==
    /\ p \in Started /\ procs[p].op \in {"create", "delete"}
    /\ procs[p].pc = "notify" /\ procs[p].keys = <<>>

\* Handler p ends the notify call for one user.
NotifyEnds(p) ==
    /\ p \in Started /\ procs[p].pc = "notify_send" /\ procs[p].snap = {}
    /\ procs'[p].pc = "notify"

\* C21: when a notify_all call has gone through its users, every connection that
\* was subscribed when the call started and is still subscribed and live has been
\* sent the event, whichever other connections failed; and the notify call for one
\* user has attempted every connection of its copy, removes from that user's set
\* the connections whose send failed and no other, leaves every other user's set
\* as it is, and goes on with the users that are left.
C21_NotifyAllIndependent ==
    /\ [](\A p \in Started :
            NotifyAllEnds(p) =>
                \A c \in procs[p].subs0 : LiveSubscription(c) => c \in procs[p].sent)
    /\ [][\A p \in ProcIds :
            NotifyEnds(p) =>
                /\ procs[p].snap0 \ procs[p].failed \subseteq procs[p].sent
                /\ procs[p].failed \subseteq procs[p].snap0
                /\ SetOf(subscribers', procs[p].key) = SetOf(subscribers, procs[p].key) \ procs[p].failed
                /\ \A u \in Users : u # procs[p].key => SetOf(subscribers', u) = SetOf(subscribers, u)
                /\ procs'[p].keys = procs[p].keys
                /\ procs'[p].ret = procs[p].ret
       ]_vars

\* A notify_all call has gone through alice and bob: the send to the connection of
\* one of them failed and that connection was pruned, the connection of the other
\* has received the event.
C21_Witness ==
    \E p, a, b \in Started :
        /\ NotifyAllEnds(p)
        /\ {a, b} \subseteq procs[p].subs0
        /\ procs[a].user # procs[b].user
        /\ a \in hist.pruned /\ a \notin procs[p].sent
        /\ LiveSubscription(b) /\ b \in procs[p].sent /\ Received(b, UpdateEvent)

-----------------------------------------------------------------------------
(* Authorship: rooms/routes.py send_room_message and websocket_endpoint *)

\* The username that the token of handler p resolves to.
ResolvedUser(p) == IF procs[p].op = "ws" THEN verify_token(procs[p].token) ELSE procs[p].user

\* The resolved users of the handlers that have taken a message for this room.
SendersOf(room_id) ==
    {ResolvedUser(p) : p \in {q \in Started : /\ procs[q].op \in {"ws", "send"}
                                               /\ procs[q].room = room_id
                                               /\ procs[q].frame.type = "message"}}

\* Handler p runs add_message.
AddsMessage(p) == p \in Started /\ procs[p].pc = "add_message" /\ procs'[p].pc = "broadcast"

\* C22: every message record of the store and every message event that a
\* connection has received has as author the resolved user of a handler that sent
\* a message to that room, never a name that only a frame gave; and the record
\* that add_message appends and the event handed to the broadcast are made of the
\* resolved user, the body and the time, whatever author the frame names.
C22_AuthorIsResolvedUser ==
    /\ [](\A i \in DOMAIN messages :
            /\ messages[i].username \in SendersOf(messages[i].room_id)
            /\ messages[i].username \notin ClaimedNames)
    /\ [](\A c \in Started : \A i \in DOMAIN MessageEventsOf(c) :
            /\ MessageEventsOf(c)[i].data.username \in SendersOf(procs[c].room)
            /\ MessageEventsOf(c)[i].data.username \notin ClaimedNames)
    /\ [][\A p \in ProcIds :
            AddsMessage(p) =>
                /\ messages' = Append(messages,
                       [id |-> Len(messages) + 1, room_id |-> procs[p].room,
                        username |-> ResolvedUser(p), message |-> procs[p].frame.message,
                        timestamp |-> Now])
                /\ procs'[p].ev.data.username = ResolvedUser(p)
                /\ procs'[p].ev.data.message = procs[p].frame.message
                /\ procs'[p].ev.data.timestamp = Now
       ]_vars

\* alice's session has sent a frame that names carol as author and bob's request
\* has named carol too: both messages are stored under alice and bob, and alice's
\* connection has received both under those names.
C22_Witness ==
    \E p, q \in Started :
        /\ procs[p].op = "ws" /\ procs[p].frame.username = carol
        /\ procs[q].op = "send" /\ procs[q].frame.username = carol /\ procs[q].pc = "done"
        /\ \E i, j \in DOMAIN messages : messages[i].username = alice /\ messages[j].username = bob
        /\ \E i, j \in DOMAIN MessageEventsOf(p) :
               /\ MessageEventsOf(p)[i].data.username = alice
               /\ MessageEventsOf(p)[j].data.username = bob

-----------------------------------------------------------------------------
(* The two send paths *)

\* What the access check of the request path decides for user u and room r in the
\* present state: a DM lets its members through, anything else everybody.
WouldBeGranted(u, r) ==
    (r \in DOMAIN ROOMS /\ ROOMS[r] = "dm") => u \in get_room_members(r)

\* C23: a message that the push path takes from a user for a room is one that the
\* request path would take from that user for that room: when a session appends a
\* message, the access decision of the request path for its user and room is to
\* let the send through.
C23_SameAccessOnBothPaths ==
    \A p \in Started :
        (procs[p].op = "ws" /\ procs[p].pc \in {"add_message", "broadcast"}) =>
            WouldBeGranted(procs[p].user, procs[p].room)

-----------------------------------------------------------------------------
(* Self-DM: rooms/routes.py create_dm *)

\* The DM creates in which the target is the caller.
SelfDms == {p \in Started : procs[p].op = "dm" /\ procs[p].other = procs[p].user}

\* The ids that a DM of a user with that same user would have.
SelfDmIds == {DmRoomId(u, u) : u \in Users}

\* C24: a DM create of a user with that same user ends with the invalid-request
\* error at its first step, and no registry entry, room record or membership row
\* of such a pair ever exists; the step changes nothing in the registry or store.
C24_SelfDmRejected ==
    /\ [](\A p \in SelfDms :
            /\ procs[p].pc \in {"dm_check", "done"}
            /\ procs[p].pc = "done" => procs[p].ret = "400 cannot dm yourself")
    /\ [](\A r \in SelfDmIds :
            /\ r \notin DOMAIN ROOMS
            /\ r \notin DOMAIN rooms_tbl
            /\ get_room_members(r) = {})
    /\ [][\A p \in ProcIds :
            (p \in SelfDms /\ procs'[p] # procs[p]) =>
                UNCHANGED <<ROOMS, rooms_tbl, room_members, lock>>
       ]_vars

\* alice's DM create with herself has been refused.
C24_Witness ==
    \E p \in SelfDms :
        /\ procs[p].user = alice
        /\ procs[p].pc = "done" /\ procs[p].ret = "400 cannot dm yourself"
        /\ ROOMS = EmptyMap /\ rooms_tbl = EmptyMap /\ room_members = {}

-----------------------------------------------------------------------------
(* DM create-or-get, called again *)

\* The rooms returned for the pair of handler p before p began.
EarlierDms(p) == {d \in procs[p].dms0 : d.pair = {procs[p].user, procs[p].other}}

\* Handler p is a DM create for a pair for which a create has returned before.
SecondDm(p) ==
    p \in Started /\ procs[p].op = "dm" /\ procs[p].user # procs[p].other /\ EarlierDms(p) # {}

\* C25: a create_or_get_dm for a pair for which a call has returned before, in
\* either argument order, never takes the write path (no store transaction, no
\* registry assignment) and changes neither registry nor store, and it returns the
\* id returned before, with type dm, the members {A, B} and, as display name, the
\* member that is not the caller.
C25_DmIdempotent ==
    /\ [](\A p \in Started :
            SecondDm(p) =>
                /\ procs[p].pc \in {"dm_check", "dm_existing", "notify_dm", "notify", "done"}
                /\ procs[p].ret = "200" =>
                      /\ \A d \in EarlierDms(p) : procs[p].out.room_id = d.room
                      /\ procs[p].out.room_type = "dm"
                      /\ procs[p].out.members = {procs[p].user, procs[p].other}
                      /\ procs[p].out.display_name = procs[p].other)
    /\ [][\A p \in ProcIds :
            (SecondDm(p) /\ procs'[p] # procs[p]) =>
                UNCHANGED <<ROOMS, rooms_tbl, room_members, clock>>
       ]_vars

\* bob's call for (bob, alice) has returned after alice's call for (alice, bob)
\* had: it returned the same room, under alice's name.
C25_Witness ==
    \E p, q \in Started :
        /\ procs[q].op = "dm" /\ procs[q].user = alice /\ procs[q].other = bob
        /\ procs[q].ret = "200"
        /\ SecondDm(p) /\ procs[p].user = bob /\ procs[p].other = alice
        /\ procs[p].ret = "200"
        /\ procs[p].out.room_id = procs[q].out.room_id
        /\ procs[p].out.display_name = alice /\ procs[q].out.display_name = bob

-----------------------------------------------------------------------------
(* Load at startup: rooms/services.py load_rooms_from_db *)

\* The room ids of the message log.
LoggedRoomIds == {messages[i].room_id : i \in DOMAIN messages}

\* This step is a start of the process.
Loads == hist'.loads # hist.loads

\* C26: when load() has run at startup, the registry holds exactly the rooms that
\* were stored and not deleted, with their stored types, and, as channels, the ids
\* of the message log that had no room record; every id of the message log then
\* has a row in the rooms table, and the rows that were there are as they were.
C26_LoadReconciles ==
    [][Loads =>
         /\ DOMAIN ROOMS' = {r \in DOMAIN rooms_tbl : ~rooms_tbl[r].deleted}
                               \cup (LoggedRoomIds \ DOMAIN rooms_tbl)
         /\ \A r \in DOMAIN ROOMS' :
               ROOMS'[r] = IF r \in DOMAIN rooms_tbl THEN rooms_tbl[r].room_type ELSE "channel"
         /\ LoggedRoomIds \subseteq DOMAIN rooms_tbl'
         /\ \A r \in DOMAIN rooms_tbl : rooms_tbl'[r] = rooms_tbl[r]
         /\ \A r \in DOMAIN rooms_tbl' \ DOMAIN rooms_tbl :
               rooms_tbl'[r].room_type = "channel" /\ ~rooms_tbl'[r].deleted
    ]_vars

\* The process has started again after bob had sent to an id without a room record
\* and alice had created the DM: the id has a channel record now and both rooms
\* are registered with their types.
C26_Witness ==
    /\ hist.loads = 1
    /\ budget = 0
    /\ general \in LoggedRoomIds
    /\ general \in DOMAIN rooms_tbl /\ rooms_tbl[general].room_type = "channel"
    /\ ROOMS = [r \in {general, DmRoomId(alice, bob)} |-> IF r = general THEN "channel" ELSE "dm"]

-----------------------------------------------------------------------------
(* Channel name validation *)

\* The name is one or more non-empty runs of lowercase letters and digits joined
\* by single hyphens.
HyphenatedRuns(name) ==
    /\ name # <<>>
    /\ \A i \in 1..Len(name) : IsAlnum(name[i]) \/ name[i] = Hyphen
    /\ name[1] # Hyphen /\ name[Len(name)] # Hyphen
    /\ \A i \in 1..(Len(name) - 1) : ~(name[i] = Hyphen /\ name[i + 1] = Hyphen)

\* C27: a channel create goes past validation exactly when its name is one or
\* more non-empty runs of lowercase letters and digits joined by single hyphens;
\* any other name is answered 400 with the registry and the rooms table untouched.
C27_NameValidation ==
    /\ \A p \in Started :
           (procs[p].op = "create" /\ procs[p].pc # "create_room")
           => (procs[p].ret = "400 invalid name" <=> ~HyphenatedRuns(procs[p].room))
    /\ \A r \in DOMAIN ROOMS : HyphenatedRuns(r)
    /\ \A r \in DOMAIN rooms_tbl : HyphenatedRuns(r)

-----------------------------------------------------------------------------
(* The registry lock and the store *)

\* Positions at which the next statement of a handler is a store read or write.
StoreSteps == {"create_persist", "dm_existing", "dm_persist", "delete_persist",
               "add_message", "access_members", "list_rooms"}

\* C28: no handler holds the registry lock while it performs a store round-trip:
\* a handler whose next statement reads or writes the store is not the holder.
C28_NoStoreUnderLock ==
    \A p \in Started : procs[p].pc \in StoreSteps => lock # p

-----------------------------------------------------------------------------
(* Opening a session *)

\* Connection c has been sent its confirmation.
Confirmed(c) == Received(c, ConnectedEvent(procs[c].room, procs[c].user))

-----------------------------------------------------------------------------
(* One broadcast call *)

\* How many times event ev has been written to connection c.
Count(c, ev) == Cardinality({i \in DOMAIN inbox[c] : inbox[c][i] = ev})

\* The send attempts that the broadcast call of p has made on connection c: the
\* writes of its event, and the failure it has noted.
Attempts(p, c) == Count(c, procs[p].ev) + (IF c \in procs[p].failed THEN 1 ELSE 0)

\* Handler p is inside the send loop of broadcast_to_room.
Broadcasting(p) == p \in Started /\ procs[p].pc = "broadcast_send"

\* C30: within one broadcast_to_room call, whatever connects and disconnects at
\* its sends, a connection of the copy taken at the start gets exactly one send
\* attempt (none while its turn has not come, one from then on), a connection
\* that was not in the copy gets none, and the call returns to its caller without
\* raising, whatever has become of the room's set and entry.
C30_SnapshotBroadcast ==
    /\ [](\A p \in ProcIds : Broadcasting(p) =>
             /\ procs[p].snap \subseteq procs[p].snap0
             /\ \A c \in ProcIds :
                   Attempts(p, c) = IF c \in procs[p].snap0 \ procs[p].snap THEN 1 ELSE 0)
    /\ [][\A p \in ProcIds :
             BroadcastEnds(p) =>
                /\ \A c \in ProcIds : Attempts(p, c) = IF c \in procs[p].snap0 THEN 1 ELSE 0
                /\ procs'[p].pc = IF procs[p].op = "send" THEN "done" ELSE "ws_receive"
                /\ procs'[p].ret # "error"
       ]_vars

\* A broadcast call has made its last send while the one connection of its copy
\* has been disconnected, so that the room's entry went, and a session that
\* opened during the call is registered and confirmed and has not got the event.
C30_Witness ==
    \E p \in Started, d \in Started, c \in Started :
        /\ procs[p].pc = "broadcast_send" /\ procs[p].snap = {}
        /\ procs[p].snap0 = {d}
        /\ d \in hist.disconnected \ procs[p].disc0
        /\ c \in SetOf(active_connections, procs[p].room) \ procs[p].snap0
        /\ Confirmed(c) /\ ~Received(c, procs[p].ev)

-----------------------------------------------------------------------------
(* Tagged events of another type *)

\* In this step session p, waiting for a frame, takes a tagged event whose type
\* is not message.
TakesOtherType(p) ==
    /\ p \in Started /\ procs[p].op = "ws" /\ procs[p].pc = "ws_receive"
    /\ budget' = budget - 1 /\ nprocs' = nprocs /\ peer' = peer
    /\ procs'[p].frame.json = "object" /\ procs'[p].frame.type # "message"
    /\ \A q \in ProcIds \ {p} : procs'[q] = procs[q]

\* C31: a frame taken by an open session that decodes to a tagged event of a type
\* other than message changes nothing: no row is appended, no broadcast begins,
\* nothing is written to any connection, and the session goes on waiting for the
\* next frame, registered as before.
C31_OtherTypeIgnored ==
    [][\A p \in ProcIds :
         TakesOtherType(p) =>
            /\ messages' = messages
            /\ inbox' = inbox
            /\ active_connections' = active_connections
            /\ p \in SetOf(active_connections', procs[p].room)
            /\ procs'[p] = [procs[p] EXCEPT !.frame = procs'[p].frame]
      ]_vars

\* A session has taken an event of another type and waits for the next frame; the
\* one message of the room is that of another user's session, and each of the two
\* sessions has been written its confirmation and that message, nothing else.
C31_Witness ==
    \E p \in Started, q \in Started :
        /\ q # p
        /\ procs[p].op = "ws" /\ procs[p].pc = "ws_receive"
        /\ procs[p].frame.type = "typing"
        /\ procs[q].user # procs[p].user
        /\ Len(messages) = 1 /\ messages[1].username = procs[q].user
        /\ Len(inbox[p]) = 2 /\ Len(inbox[q]) = 2
        /\ {p, q} \subseteq SetOf(active_connections, procs[p].room)

-----------------------------------------------------------------------------
(* A crash between the reservation and the record *)

\* The one request received since the restart that followed reservation x is a
\* create of the same id.
RetryOf(x, q) ==
    /\ nprocs = x.upto + 1 /\ q = nprocs
    /\ procs[q].op = "create" /\ procs[q].room = x.room
    /\ hist.loads = x.load

\* C32: when the process stops after a create has entered its id in the registry
\* and before the room record is written, then after the next start the id is not
\* registered as long as no request has come, and a create of the id that comes
\* first is not refused and leaves the id registered with a record that is not
\* deleted.
C32_CrashDropsReservation ==
    \A x \in hist.reserved :
        /\ (hist.loads = x.load /\ nprocs = x.upto) => x.room \notin DOMAIN ROOMS
        /\ \A q \in Started :
              RetryOf(x, q) =>
                 /\ procs[q].ret # "400 already exists"
                 /\ procs[q].pc = "notify_all"
                    => /\ x.room \in DOMAIN ROOMS
                       /\ x.room \in DOMAIN rooms_tbl /\ ~rooms_tbl[x.room].deleted

-----------------------------------------------------------------------------
(* What create_or_get_dm returns *)

\* C33: when create_or_get_dm(A, B) has returned a room description, whatever was
\* done to the id before, the registry holds the returned id with the type dm, the
\* members stored for it are exactly A and B, and the description says the same.
C33_DmDescriptionAgrees ==
    \A p \in Started :
        (procs[p].op = "dm" /\ procs[p].pc = "notify_dm") =>
            /\ procs[p].out.room_id = DmRoomId(procs[p].user, procs[p].other)
            /\ procs[p].out.room_id \in DOMAIN ROOMS
            /\ ROOMS[procs[p].out.room_id] = "dm"
            /\ get_room_members(procs[p].out.room_id) = {procs[p].user, procs[p].other}
            /\ procs[p].out.room_type = ROOMS[procs[p].out.room_id]
            /\ procs[p].out.members = get_room_members(procs[p].out.room_id)

-----------------------------------------------------------------------------
(* After a delete *)

\* The requests that create room_id: a channel create of the name, or a DM create
\* of the pair that has this id.
CreatesOf(room_id) ==
    {q \in Started :
        \/ procs[q].op = "create" /\ procs[q].room = room_id
        \/ procs[q].op = "dm" /\ DmRoomId(procs[q].user, procs[q].other) = room_id}

\* Delete d has succeeded, every create of its id came before it and has returned,
\* and the process has not started again.
DeletedAndNotCreatedSince(d) ==
    /\ procs[d].op = "delete" /\ procs[d].ret = "200"
    /\ \A q \in CreatesOf(procs[d].room) : q < d /\ procs[q].ret # "none"
    /\ hist.loads = 0

\* C34: after a delete of a room id has succeeded, the id is not registered,
\* whatever fetches, sends and push upgrades follow, as long as no create and no
\* DM create of the id has been invoked since.
C34_DeletedStaysUnregistered ==
    \A d \in Started :
        DeletedAndNotCreatedSince(d) => procs[d].room \notin DOMAIN ROOMS

-----------------------------------------------------------------------------
(* The history of a deleted DM *)

\* C35: a message fetch on the id of the DM of alice and bob by a user who is
\* neither of them never returns a message that was appended while the id was
\* registered as a DM, also after the DM has been soft-deleted.
C35_DmHistoryStaysPrivate ==
    \A p \in Started :
        (/\ procs[p].op = "fetch" /\ procs[p].ret = "200"
         /\ procs[p].room = DmRoomId(alice, bob)
         /\ procs[p].user \notin {alice, bob})
        => \A i \in DOMAIN procs[p].out : procs[p].out[i].id \notin hist.dm_rows

-----------------------------------------------------------------------------
(* Appends and the registry *)

\* C36: a message is appended only to a room id that is registered at that
\* moment: a handler that has just appended its message, on either send path (it
\* goes on to the broadcast without giving up the event loop), finds its room id
\* in the registry, also when the room was deleted after the session had opened.
C36_AppendsToRegisteredRoom ==
    \A p \in Started :
        procs[p].pc = "broadcast" => procs[p].room \in DOMAIN ROOMS

-----------------------------------------------------------------------------
(* Isolation of rooms and of users *)

\* The room sessions that have registered under room_id, and the list
\* subscriptions that have registered under username.
SessionsOf(room_id) == {c \in Started : procs[c].op = "ws" /\ procs[c].room = room_id}
SubscriptionsOf(username) == {c \in Started : procs[c].op = "listws" /\ procs[c].user = username}

\* C37: a broadcast to room X copies and sends to connections registered under X
\* only, so that every message event on a room connection is that of a message of
\* its own room, and notify(U, event) copies and sends to list connections of U
\* only; neither manager writes to a connection of the other.
C37_Isolation ==
    /\ \A r \in DOMAIN active_connections : active_connections[r] \subseteq SessionsOf(r)
    /\ \A u \in DOMAIN subscribers : subscribers[u] \subseteq SubscriptionsOf(u)
    /\ \A p \in Started :
           /\ procs[p].pc = "broadcast_send" => procs[p].snap0 \subseteq SessionsOf(procs[p].room)
           /\ procs[p].pc = "notify_send" => procs[p].snap0 \subseteq SubscriptionsOf(procs[p].key)
           /\ procs[p].op = "dm"
              => procs[p].sent \subseteq SubscriptionsOf(procs[p].user) \cup SubscriptionsOf(procs[p].other)
    /\ \A c \in Started :
           /\ procs[c].op = "ws"
              => \A i \in DOMAIN inbox[c] :
                    /\ inbox[c][i].type # "update"
                    /\ inbox[c][i].type = "message" => RowOf(procs[c].room, inbox[c][i].data) # {}
           /\ procs[c].op = "listws"
              => \A i \in DOMAIN inbox[c] :
                    inbox[c][i] = UpdateEvent /\ procs[c].user \in {alice, bob}

\* A session of one channel has received a message of its room while a session of
\* the other channel, registered before the message was stored, has received its
\* confirmation only.
C37_Witness ==
    \E c \in Started, d \in Started :
        /\ procs[c].op = "ws" /\ procs[d].op = "ws" /\ procs[c].room # procs[d].room
        /\ c \in SetOf(active_connections, procs[c].room)
        /\ d \in SetOf(active_connections, procs[d].room)
        /\ Len(messages) = 1 /\ messages[1].room_id = procs[c].room
        /\ procs[d].regat = 0 /\ Len(inbox[d]) = 1
        /\ Len(MessageEventsOf(c)) = 1
        /\ \A p \in Started : procs[p].pc \notin {"broadcast", "broadcast_send"}

-----------------------------------------------------------------------------
(* The response of a request send *)

\* C38: a request send that has passed the access check ends with the success
\* response, which carries the appended record with the id that the store gave
\* it; it does not end in an error once its message is stored and broadcast.
C38_SendAnswersWithRecord ==
    \A p \in Started :
        (procs[p].op = "send" /\ procs[p].granted /\ procs[p].pc = "done") =>
            /\ procs[p].ret = "200"
            /\ "id" \in DOMAIN procs[p].out
            /\ \E k \in DOMAIN messages :
                  /\ messages[k].id = procs[p].out.id
                  /\ messages[k].room_id = procs[p].room
                  /\ messages[k].username = procs[p].user
====
